---------------------------- MODULE Spec2Model ----------------------------
(***************************************************************************)
(* State-machine model of grass_gis_helpers: the tiled parallel pipeline   *)
(* (tiling.create_grid, parallel.run_module_parallel) and the helpers it   *)
(* relies on (cleanup.reset_region, cleanup.rm_vects,                      *)
(* mapset.verify_mapsets).                                                 *)
(*                                                                         *)
(* Names (mapsets, tiles, modules, run ids) are sequences of one-character *)
(* strings, so that formatting and replacing are computed, not assumed.    *)
(* The external toolkit (GRASS commands, pygrass' ParallelModuleQueue and  *)
(* Module) is modelled by what the calls in the source rely on; a command  *)
(* may fail wherever the source runs one.                                  *)
(***************************************************************************)
EXTENDS Integers, Sequences, FiniteSets, TLC

(***************************************************************************)
(* Bounds of the model.                                                    *)
(***************************************************************************)
MaxTiles == 3

MaxProcs == 2

MaxCoord == 3

MaxTileSize == 2

(***************************************************************************)
(* Strings as character sequences.                                         *)
(***************************************************************************)
DigitChars == <<"0", "1", "2", "3", "4", "5", "6", "7", "8", "9">>

RECURSIVE Dec(_)
\* str(n) for a natural number n, as the f-strings format num and cat
Dec(n) ==
    IF n < 10 THEN <<DigitChars[n + 1]>>
    ELSE Dec(n \div 10) \o <<DigitChars[(n % 10) + 1]>>

\* s.replace(a, b) for single characters a, b
Replace(s, a, b) == [i \in 1..Len(s) |-> IF s[i] = a THEN b ELSE s[i]]

\* pat in s (substring test)
Contains(s, pat) ==
    \E i \in 0..(Len(s) - Len(pat)) :
        \A k \in 1..Len(pat) : s[i + k] = pat[k]

Range(f) == {f[i] : i \in DOMAIN f}

(***************************************************************************)
(* Inputs of run_module_parallel.                                          *)
(***************************************************************************)
\* module names: one with dots (the usual GRASS form), one without
Modules == { <<"r", ".", "x">>, <<"v", "x">> }

\* run-unique ids, one of them holding a digit and an underscore itself
Uids == { <<"7">>, <<"0", "_", "7">> }

\* the tile names handed over by create_grid: {grid_prefix}_{cat}
TileArea(i) == <<"g", "_">> \o Dec(i)

\* the caller's parameter mapping: fresh, or re-used from an earlier call
KwargsInputs ==
    { [k \in {"input"} |-> <<"d", "e", "m">>],
      [k \in {"input", "area"} |->
          IF k = "input" THEN <<"d", "e", "m">> ELSE <<"o", "l", "d">>] }

\* stderr of a worker, as lines
WARN == <<"W", "A", "R", "N">>

StderrValues ==
    { << >>,
      << <<"a", "W", "A", "R", "N">> >>,
      << << >>, <<"W", "A", "R">> >> }

StartMapset == <<"P">>

VARIABLES
    \* ---- run_module_parallel ----
    module,            \* argument module
    module_kwargs,     \* argument module_kwargs (the caller's mapping)
    base_kwargs,       \* module_kwargs as passed in (history, never written)
    tile_list,         \* argument tile_list
    nprocs,            \* argument nprocs
    uid,               \* argument uid
    parallel,          \* argument parallel
    cur_mapset,        \* grass.gisenv()["MAPSET"] of the calling process
    start_cur_mapset,  \* local start_cur_mapset
    pc,                \* position in run_module_parallel
    num,               \* loop counter of enumerate(tile_list)
    mapset_names,      \* local mapset_names
    procs,             \* the worker of each tile (Module object and process)
    queue,             \* ParallelModuleQueue: _list, _proc_count, _finished_modules
    wait_i,            \* position of queue.wait() in _list
    wait_from,         \* who called queue.wait(): "put" or "final"
    handler_i,         \* proc_num of the except block
    fatals,            \* grass.fatal calls made (job, message)
    warnings,          \* grass.warning calls made (job)
    logs,              \* "Log of ..." messages emitted (job, lines)
    result,            \* the returned mapset_names and location path
    \* ---- create_grid ----
    tile_size,         \* argument tile_size
    grid_prefix,       \* argument grid_prefix
    sid,               \* argument sid
    area,              \* argument area: a vector map name, << >> for None
    region,            \* the current region of the session
    region_at_call,    \* the current region when create_grid was called (history)
    saved_regions,     \* the saved regions (element "windows"), by name
    vectors,           \* the vector maps of the mapset, by name
    g_pc,              \* position in create_grid
    orig_region,       \* local orig_region
    grid,              \* local grid
    grid_name,         \* local grid_name
    tiles_num_list,    \* local tiles_num_list
    number_tiles,      \* local number_tiles
    tiles_list,        \* local tiles_list
    g_i,               \* loop position (tiles, rm_vects)
    g_error,           \* how create_grid ended: "none", "CalledModuleError", "RegionMismatch"
    g_return,          \* the value create_grid returned
    \* ---- patching_vector_results / patching_raster_results ----
    p_kind,            \* which of the two functions runs: "vector" or "raster"
    mapsets,           \* argument mapsets
    output,            \* argument output
    maps,              \* the maps of the location, by (qualified) name
    p_pc,              \* position in the patching function
    commands,          \* the GRASS commands the function has run
    p_error,           \* how the function ended: "none" or the exception
    \* ---- switch_to_new_mapset ----
    s_new_mapset,      \* argument new_mapset
    new,               \* argument new
    pid,               \* os.getpid()
    environ_gisrc,     \* os.environ["GISRC"]
    files,             \* the GISRC files, by path
    mapset_dirs,       \* the mapset directories of the location, by name
    gisrc_at_call,     \* os.environ["GISRC"] at the call (history)
    files_at_call,     \* the GISRC files at the call (history)
    s_pc,              \* position in switch_to_new_mapset
    gisrc,             \* local gisrc
    newgisrc,          \* local newgisrc
    old_mapset,        \* local old_mapset
    s_error,           \* how the call ended: "none", "CalledModuleError", ...
    s_return,          \* the value switch_to_new_mapset returned
    \* ---- import_local_vector_data ----
    local_data_dir,    \* the files below argument local_data_dir
    aoi_map,           \* argument aoi_map, << >> for none
    rm_vectors,        \* argument rm_vectors (the caller's list)
    vi_output,         \* argument output
    vi_maps,           \* the vector maps of the mapset, by name
    vi_region,         \* the current region: "caller" (as at the call) or "aoi"
    imported_list,     \* local imported_list
    vi_i,              \* loop counter of enumerate(files)
    vi_pc,             \* position in import_local_vector_data
    vi_error,          \* how the call ended: "none" or the exception
    vi_return,         \* the value import_local_vector_data returned
    \* ---- import_local_raster_data ----
    ri_local_data_dir, \* the files below argument local_data_dir
    ri_aoi,            \* argument aoi, << >> for none
    native_res_flag,   \* argument native_res_flag
    all_raster,        \* argument all_raster (the caller's list or dict)
    ri_rm_rasters,     \* argument rm_rasters (the caller's list)
    band_dict,         \* argument band_dict, "None" for none
    ri_maps,           \* the raster maps of the mapset (names)
    ri_region,         \* the current region: "caller" (as at the call) or "aoi"
    ri_i,              \* loop counter of enumerate(raster_files)
    ri_b,              \* position in band_dict.items()
    ri_imported,       \* the loop counters of the files imported (history)
    ri_pc,             \* position in import_local_raster_data
    ri_error,          \* how the call ended: "none" or the exception
    ri_return,         \* the value import_local_raster_data returned
    \* ---- get_federal_states ----
    federal_state,     \* argument federal_state, << >> for an empty or missing value
    federal_state_file, \* argument federal_state_file: TRUE when a path is given
    fs_file,           \* the file at that path: whether it exists, and its text
    fs_list_str,       \* local fs_list_str, "unset" before it is assigned
    fs_list,           \* the list get_federal_states returned
    fs_pc,             \* position in get_federal_states
    fs_error,          \* how the call ended: "none" or the fatal message
    \* ---- set_nprocs ----
    sn_nprocs,         \* argument nprocs: an int, or a str holding one
    sn_cpu_count,      \* what mp.cpu_count() gives
    sn_warnings,       \* the grass.warning calls of set_nprocs
    sn_return,         \* the value set_nprocs returned
    sn_pc,             \* position in set_nprocs
    \* ---- general_cleanup ----
    gc_db,             \* the artifacts that exist: pairs << element, name >>
    gc_region,         \* the current region: "work" or the name of the region restored
    gc_def_rasters,    \* the list object that is the default of rm_rasters
    gc_def_groups,     \* the list object that is the default of rm_groups
    gc_args,           \* the arguments of the last call, << >> before the first
    gc_lists_after,    \* the caller's rm_rasters and rm_groups lists after the last call
    gc_db_at_call,     \* gc_db when the last call began (history)
    gc_calls,          \* number of general_cleanup calls so far
    gc_error,          \* how the last call ended: "none" or the exception
    gc_pc,             \* "ready" for a call, "ended" right after one, else "idle"
    \* ---- download_data_using_threadpool ----
    dl_urls,           \* number of urls in argument urls
    dl_nprocs,         \* argument nprocs: the worker threads of the pool
    dl_dir_exists,     \* whether download_dir is a directory
    dl_cwd,            \* the working directory of the process: "cur" or "download"
    dl_task,           \* per url: how far url_response got for it
    dl_written,        \* per url: the directory its file was opened in, or "none"
    dl_results,        \* the urls in the order their tasks ended, not yet seen by the loop
    dl_printed,        \* the urls the loop printed
    dl_pc,             \* position of the calling thread in download_data_using_threadpool
    dl_error           \* how the call ended: "none" or the exception

dispVars == << module, module_kwargs, base_kwargs, tile_list, nprocs, uid,
               parallel, cur_mapset, start_cur_mapset, pc, num, mapset_names,
               procs, queue, wait_i, wait_from, handler_i, fatals, warnings,
               logs, result >>

gridVars == << tile_size, grid_prefix, sid, area, region, region_at_call,
               saved_regions, vectors, g_pc, orig_region, grid, grid_name,
               tiles_num_list, number_tiles, tiles_list, g_i, g_error,
               g_return >>

patchVars == << p_kind, mapsets, output, maps, p_pc, commands, p_error >>

switchVars == << s_new_mapset, new, pid, environ_gisrc, files, mapset_dirs,
                 gisrc_at_call, files_at_call, s_pc, gisrc, newgisrc,
                 old_mapset, s_error, s_return >>

vimportVars == << local_data_dir, aoi_map, rm_vectors, vi_output, vi_maps,
                  vi_region, imported_list, vi_i, vi_pc, vi_error, vi_return >>

rimportVars == << ri_local_data_dir, ri_aoi, native_res_flag, all_raster,
                  ri_rm_rasters, band_dict, ri_maps, ri_region, ri_i, ri_b,
                  ri_imported, ri_pc, ri_error, ri_return >>

fsVars == << federal_state, federal_state_file, fs_file, fs_list_str,
             fs_list, fs_pc, fs_error >>

setNprocsVars == << sn_nprocs, sn_cpu_count, sn_warnings, sn_return, sn_pc >>

cleanupVars == << gc_db, gc_region, gc_def_rasters, gc_def_groups, gc_args,
                  gc_lists_after, gc_db_at_call, gc_calls, gc_error,
                  gc_pc >>

downloadVars == << dl_urls, dl_nprocs, dl_dir_exists, dl_cwd, dl_task,
                   dl_written, dl_results, dl_printed, dl_pc, dl_error >>

vars == << dispVars, gridVars, patchVars, switchVars, vimportVars,
           rimportVars, fsVars, setNprocsVars, cleanupVars, downloadVars >>

\* run_module_parallel does not touch the state of the other functions
DispatchFrame == UNCHANGED << gridVars, patchVars, switchVars, vimportVars,
                              rimportVars, fsVars, setNprocsVars,
                              cleanupVars, downloadVars >>

\* create_grid does not touch the state of the other functions
GridFrame == UNCHANGED << dispVars, patchVars, switchVars, vimportVars,
                          rimportVars, fsVars, setNprocsVars, cleanupVars,
                          downloadVars >>

\* the patching functions do not touch the state of the other functions
PatchFrame == UNCHANGED << dispVars, gridVars, switchVars, vimportVars,
                           rimportVars, fsVars, setNprocsVars, cleanupVars,
                           downloadVars >>

\* switch_to_new_mapset does not touch the state of the other functions
SwitchFrame == UNCHANGED << dispVars, gridVars, patchVars, vimportVars,
                            rimportVars, fsVars, setNprocsVars, cleanupVars,
                            downloadVars >>

\* import_local_vector_data does not touch the state of the other functions
VImportFrame == UNCHANGED << dispVars, gridVars, patchVars, switchVars,
                             rimportVars, fsVars, setNprocsVars, cleanupVars,
                             downloadVars >>

\* import_local_raster_data does not touch the state of the other functions
RImportFrame == UNCHANGED << dispVars, gridVars, patchVars, switchVars,
                             vimportVars, fsVars, setNprocsVars, cleanupVars,
                             downloadVars >>

\* get_federal_states does not touch the state of the other functions
FederalStatesFrame == UNCHANGED << dispVars, gridVars, patchVars, switchVars,
                                   vimportVars, rimportVars, setNprocsVars,
                                   cleanupVars, downloadVars >>

\* set_nprocs does not touch the state of the other functions
SetNprocsFrame == UNCHANGED << dispVars, gridVars, patchVars, switchVars,
                               vimportVars, rimportVars, fsVars, cleanupVars,
                               downloadVars >>

\* general_cleanup does not touch the state of the other functions
CleanupFrame == UNCHANGED << dispVars, gridVars, patchVars, switchVars,
                             vimportVars, rimportVars, fsVars, setNprocsVars,
                             downloadVars >>

\* download_data_using_threadpool does not touch the state of the other functions
DownloadFrame == UNCHANGED << dispVars, gridVars, patchVars, switchVars,
                              vimportVars, rimportVars, fsVars,
                              setNprocsVars, cleanupVars >>


(***************************************************************************)
(* run_module_parallel: helpers                                            *)
(***************************************************************************)
NTiles == Len(tile_list)

\* sid = f"{num}_{uid}"
Sid(n, u) == Dec(n) \o <<"_">> \o u
\* variant of NewMapsetName: the tile number is left out of the name
NewMapsetNameNoNum(m, n, u) ==
    <<"t", "m", "p", "_">> \o Replace(m, ".", "_") \o <<"_">> \o u

\* new_mapset = f"tmp_{module.replace('.', '_')}_{sid}"
NewMapsetName(m, n, u) ==
    <<"t", "m", "p", "_">> \o Replace(m, ".", "_") \o <<"_">> \o Sid(n, u)

\* module_kwargs["new_mapset"] = new_mapset; module_kwargs["area"] = tile
SetKwargs(kw, nm, tile) ==
    [k \in (DOMAIN kw) \cup {"new_mapset", "area"} |->
        IF k = "new_mapset" THEN nm
        ELSE IF k = "area" THEN tile
        ELSE kw[k]]

\* a tile that has no worker yet
NoProc ==
    [st |-> "none", kwargs |-> << >>, rc |-> 0, stderr |-> << >>,
     waited |-> FALSE, captured |-> << >>]

\* Module(module, **module_kwargs, run_=False) and
\* grass.run_command(module, **module_kwargs): the call unpacks the mapping,
\* the worker keeps the values it was built with
NewProc(kw) ==
    [st |-> "running", kwargs |-> kw, rc |-> 0, stderr |-> << >>,
     waited |-> FALSE, captured |-> << >>]
\* variant of ProcKwargs: the worker reads the shared mapping, not a copy
ProcKwargsShared(j) == module_kwargs

\* the parameters the worker of tile j runs with
ProcKwargs(j) == procs[j].kwargs

\* proc.get_bash(): the invocation description of a worker
GetBash(j) == [module |-> module, kwargs |-> ProcKwargs(j)]

\* ParallelModuleQueue(nprocs=nprocs)
NewQueue(n) == [list |-> [i \in 1..n |-> 0], proc_count |-> 0, finished |-> << >>]
\* variant of Communicated: wait() does not block
CommunicatedNoBlock(j) == TRUE

\* Module.wait() blocks in communicate() until the process has ended
Communicated(j) == procs[j].st = "exited"
\* variant of RunCommandEnded: run_command does not wait for the worker
RunCommandEndedNoWait(j) == TRUE

\* grass.run_command returns (or raises) only when the worker has ended
RunCommandEnded(j) == procs[j].st = "exited"
\* variant of ReturncodeNonZero: the except block does not test the result
ReturncodeAny(j) == TRUE

\* proc.returncode != 0; returncode is None until Module.wait() has read it
ReturncodeNonZero(j) == IF procs[j].waited THEN procs[j].rc # 0 ELSE TRUE
\* variant of LogLines: empty lines are not dropped
LogLinesAll(stderr) == stderr

\* the lines of msg.split("\n") with len(msg_part) > 0
LogLines(stderr) == SelectSeq(stderr, LAMBDA ln : Len(ln) > 0)

\* "WARN" in stderr
HasWarn(stderr) == \E i \in 1..Len(stderr) : Contains(stderr[i], WARN)

\* check_parallel_warnings(queue): the modules it warns about
CheckParallelWarnings(finished) ==
    SelectSeq(finished, LAMBDA j : HasWarn(procs[j].captured))
\* variant of MapsetVerified: the comparison is left out
MapsetVerifiedAlways(cur, start) == TRUE

\* verify_mapsets: cur_mapset != start_cur_mapset is fatal
MapsetVerified(cur, start) == cur = start

\* os.path.join(gisdbase, location)
LocationPath == <<"/", "d", "b", "/", "l", "o", "c">>

JobFailure(j) ==
    [kind |-> "JobFailure", job |-> j, bash |-> GetBash(j),
     errmsg |-> procs[j].captured]

WorkspaceMismatch ==
    [kind |-> "WorkspaceMismatch", job |-> 0, bash |-> << >>, errmsg |-> << >>]

(***************************************************************************)
(* run_module_parallel: Init and actions                                   *)
(***************************************************************************)
\* no create_grid call is part of the run
GridIdle ==
    /\ tile_size = 1
    /\ grid_prefix = << >>
    /\ sid = << >>
    /\ area = << >>
    /\ region = [n |-> 1, s |-> 0, e |-> 1, w |-> 0, nsres |-> 1, ewres |-> 1]
    /\ region_at_call = region
    /\ saved_regions = << >>
    /\ vectors = << >>
    /\ g_pc = "idle"
    /\ orig_region = << >>
    /\ grid = << >>
    /\ grid_name = << >>
    /\ tiles_num_list = << >>
    /\ number_tiles = 0
    /\ tiles_list = << >>
    /\ g_i = 0
    /\ g_error = "none"
    /\ g_return = << >>

\* no patching function is part of the run
PatchIdle ==
    /\ p_kind = "vector"
    /\ mapsets = << >>
    /\ output = << >>
    /\ maps = << >>
    /\ p_pc = "idle"
    /\ commands = << >>
    /\ p_error = "none"

\* no switch_to_new_mapset call is part of the run
SwitchIdle ==
    /\ s_new_mapset = << >>
    /\ new = TRUE
    /\ pid = 0
    /\ environ_gisrc = << >>
    /\ files = << >>
    /\ mapset_dirs = << >>
    /\ gisrc_at_call = << >>
    /\ files_at_call = << >>
    /\ s_pc = "idle"
    /\ gisrc = << >>
    /\ newgisrc = << >>
    /\ old_mapset = << >>
    /\ s_error = "none"
    /\ s_return = << >>

\* no import_local_vector_data call is part of the run
VImportIdle ==
    /\ local_data_dir = << >>
    /\ aoi_map = << >>
    /\ rm_vectors = << >>
    /\ vi_output = << >>
    /\ vi_maps = << >>
    /\ imported_list = << >>
    /\ vi_i = 0
    /\ vi_pc = "idle"
    /\ vi_error = "none"
    /\ vi_return = "none"
    /\ vi_region = "caller"

\* no import_local_raster_data call is part of the run
RImportIdle ==
    /\ ri_local_data_dir = << >>
    /\ ri_aoi = << >>
    /\ native_res_flag = FALSE
    /\ all_raster = << >>
    /\ ri_rm_rasters = << >>
    /\ band_dict = "None"
    /\ ri_maps = {}
    /\ ri_region = "caller"
    /\ ri_i = 0
    /\ ri_b = 0
    /\ ri_imported = << >>
    /\ ri_pc = "idle"
    /\ ri_error = "none"
    /\ ri_return = "none"

\* no get_federal_states call is part of the run
FederalStatesIdle ==
    /\ federal_state = << >>
    /\ federal_state_file = FALSE
    /\ fs_file = [exists |-> FALSE, text |-> << >>]
    /\ fs_list_str = "unset"
    /\ fs_list = << >>
    /\ fs_pc = "idle"
    /\ fs_error = "none"

\* no set_nprocs call is part of the run
SetNprocsIdle ==
    /\ sn_nprocs = [kind |-> "int", val |-> 1]
    /\ sn_cpu_count = 1
    /\ sn_warnings = 0
    /\ sn_return = "none"
    /\ sn_pc = "idle"

\* no general_cleanup call is part of the run
CleanupIdle ==
    /\ gc_db = {}
    /\ gc_region = "work"
    /\ gc_def_rasters = << >>
    /\ gc_def_groups = << >>
    /\ gc_args = << >>
    /\ gc_lists_after = << >>
    /\ gc_db_at_call = {}
    /\ gc_calls = 0
    /\ gc_error = "none"
    /\ gc_pc = "idle"

\* no download_data_using_threadpool call is part of the run
DownloadIdle ==
    /\ dl_urls = 0
    /\ dl_nprocs = 1
    /\ dl_dir_exists = TRUE
    /\ dl_cwd = "cur"
    /\ dl_task = << >>
    /\ dl_written = << >>
    /\ dl_results = << >>
    /\ dl_printed = << >>
    /\ dl_pc = "idle"
    /\ dl_error = "none"

InitDispatch ==
    /\ GridIdle
    /\ PatchIdle
    /\ SwitchIdle
    /\ VImportIdle
    /\ RImportIdle
    /\ FederalStatesIdle
    /\ SetNprocsIdle
    /\ CleanupIdle
    /\ DownloadIdle
    /\ module \in Modules
    /\ module_kwargs \in KwargsInputs
    /\ base_kwargs = module_kwargs
    /\ tile_list \in { [i \in 1..n |-> TileArea(i)] : n \in 0..MaxTiles }
    /\ nprocs \in 1..MaxProcs
    /\ uid \in Uids
    /\ parallel \in BOOLEAN
    /\ cur_mapset = StartMapset
    /\ start_cur_mapset = << >>
    /\ pc = "start"
    /\ num = 0
    /\ mapset_names = << >>
    /\ procs = [j \in 1..Len(tile_list) |-> NoProc]
    /\ queue = NewQueue(0)
    /\ wait_i = 0
    /\ wait_from = "none"
    /\ handler_i = 0
    /\ fatals = << >>
    /\ warnings = << >>
    /\ logs = << >>
    /\ result = [names |-> << >>, path |-> << >>]

\* lines 64-68
Enter ==
    /\ DispatchFrame
    /\ pc = "start"
    /\ start_cur_mapset' = cur_mapset
    /\ queue' = NewQueue(nprocs)
    /\ mapset_names' = << >>
    /\ num' = 0
    /\ pc' = "loop"
    /\ UNCHANGED << module, module_kwargs, base_kwargs, tile_list, nprocs, uid,
                    parallel, cur_mapset, procs, wait_i, wait_from, handler_i,
                    fatals, warnings, logs, result >>

\* lines 70-86: one pass of the loop with parallel=True, up to queue.put(mod);
\* put starts the process and, when the queue is full, calls wait()
LoopPut ==
    /\ DispatchFrame
    /\ pc = "loop"
    /\ num < NTiles
    /\ parallel
    /\ LET j == num + 1
           new_mapset == NewMapsetName(module, num, uid)
           kw == SetKwargs(module_kwargs, new_mapset, tile_list[j])
           count == queue.proc_count + 1
       IN /\ mapset_names' = Append(mapset_names, new_mapset)
          /\ module_kwargs' = kw
          /\ procs' = [procs EXCEPT ![j] = NewProc(kw)]
          /\ queue' = [queue EXCEPT !.list[count] = j, !.proc_count = count]
          /\ IF count = nprocs
             THEN /\ pc' = "wait"
                  /\ wait_i' = 1
                  /\ wait_from' = "put"
                  /\ num' = num
             ELSE /\ pc' = "loop"
                  /\ num' = num + 1
                  /\ UNCHANGED << wait_i, wait_from >>
    /\ UNCHANGED << module, base_kwargs, tile_list, nprocs, uid, parallel,
                    cur_mapset, start_cur_mapset, handler_i, fatals, warnings,
                    logs, result >>

\* lines 70-79, 88: one pass of the loop with parallel=False, up to the start
\* of grass.run_command, which runs the worker on the calling thread
LoopRunCommand ==
    /\ DispatchFrame
    /\ pc = "loop"
    /\ num < NTiles
    /\ ~parallel
    /\ LET j == num + 1
           new_mapset == NewMapsetName(module, num, uid)
           kw == SetKwargs(module_kwargs, new_mapset, tile_list[j])
       IN /\ mapset_names' = Append(mapset_names, new_mapset)
          /\ module_kwargs' = kw
          /\ procs' = [procs EXCEPT ![j] = NewProc(kw)]
    /\ pc' = "run_command"
    /\ UNCHANGED << module, base_kwargs, tile_list, nprocs, uid, parallel,
                    cur_mapset, start_cur_mapset, num, queue, wait_i, wait_from,
                    handler_i, fatals, warnings, logs, result >>

\* line 88: grass.run_command returns, or raises CalledModuleError when the
\* worker ended with a non-zero result
RunCommandReturn ==
    /\ DispatchFrame
    /\ pc = "run_command"
    /\ RunCommandEnded(num + 1)
    /\ IF procs[num + 1].rc # 0
       THEN /\ pc' = "except"
            /\ handler_i' = 0
            /\ num' = num
       ELSE /\ pc' = "loop"
            /\ num' = num + 1
            /\ UNCHANGED handler_i
    /\ UNCHANGED << module, module_kwargs, base_kwargs, tile_list, nprocs, uid,
                    parallel, cur_mapset, start_cur_mapset, mapset_names, procs,
                    queue, wait_i, wait_from, fatals, warnings, logs, result >>

\* line 90: the loop is over, queue.wait() is called in both modes
LoopEnd ==
    /\ DispatchFrame
    /\ pc = "loop"
    /\ num = NTiles
    /\ pc' = "wait"
    /\ wait_i' = 1
    /\ wait_from' = "final"
    /\ UNCHANGED << module, module_kwargs, base_kwargs, tile_list, nprocs, uid,
                    parallel, cur_mapset, start_cur_mapset, num, mapset_names,
                    procs, queue, handler_i, fatals, warnings, logs, result >>

\* ParallelModuleQueue.wait(): one entry of _list; proc.wait() blocks until the
\* process has ended, stores stderr and returncode and raises on a non-zero one
QueueWaitProc ==
    /\ DispatchFrame
    /\ pc = "wait"
    /\ wait_i <= nprocs
    /\ LET j == queue.list[wait_i]
       IN IF j = 0
          THEN /\ wait_i' = wait_i + 1
               /\ UNCHANGED << pc, procs, queue, handler_i >>
          ELSE /\ Communicated(j)
               /\ procs' = [procs EXCEPT ![j].waited = TRUE,
                                         ![j].captured = procs[j].stderr]
               /\ IF procs[j].rc # 0
                  THEN /\ pc' = "except"
                       /\ handler_i' = 0
                       /\ UNCHANGED << wait_i, queue >>
                  ELSE /\ queue' = [queue EXCEPT
                                      !.finished = Append(queue.finished, j)]
                       /\ wait_i' = wait_i + 1
                       /\ UNCHANGED << pc, handler_i >>
    /\ UNCHANGED << module, module_kwargs, base_kwargs, tile_list, nprocs, uid,
                    parallel, cur_mapset, start_cur_mapset, num, mapset_names,
                    wait_from, fatals, warnings, logs, result >>

\* ParallelModuleQueue.wait(): every entry was waited for; the list is reset
QueueWaitDone ==
    /\ DispatchFrame
    /\ pc = "wait"
    /\ wait_i > nprocs
    /\ queue' = [queue EXCEPT !.list = [i \in 1..nprocs |-> 0], !.proc_count = 0]
    /\ IF wait_from = "put"
       THEN /\ pc' = "loop"
            /\ num' = num + 1
       ELSE /\ pc' = "logs"
            /\ num' = num
    /\ UNCHANGED << module, module_kwargs, base_kwargs, tile_list, nprocs, uid,
                    parallel, cur_mapset, start_cur_mapset, mapset_names, procs,
                    wait_i, wait_from, handler_i, fatals, warnings, logs,
                    result >>

\* lines 91-100: the except block, one proc_num per step; grass.fatal ends the
\* call; with nothing to report the call goes on after the try statement
ExceptProc ==
    /\ DispatchFrame
    /\ pc = "except"
    /\ IF handler_i < queue.proc_count
       THEN LET j == queue.list[handler_i + 1]
            IN IF ReturncodeNonZero(j)
               THEN /\ fatals' = Append(fatals, JobFailure(j))
                    /\ pc' = "fatal"
                    /\ UNCHANGED handler_i
               ELSE /\ handler_i' = handler_i + 1
                    /\ UNCHANGED << pc, fatals >>
       ELSE /\ pc' = "logs"
            /\ UNCHANGED << handler_i, fatals >>
    /\ UNCHANGED << module, module_kwargs, base_kwargs, tile_list, nprocs, uid,
                    parallel, cur_mapset, start_cur_mapset, num, mapset_names,
                    procs, queue, wait_i, wait_from, warnings, logs, result >>

\* lines 101-108: the logs of the finished modules, as grass.message
PrintLogs ==
    /\ DispatchFrame
    /\ pc = "logs"
    /\ logs' = [i \in 1..Len(queue.finished) |->
                  [job |-> queue.finished[i],
                   bash |-> GetBash(queue.finished[i]),
                   lines |-> LogLines(procs[queue.finished[i]].captured)]]
    /\ pc' = "verify"
    /\ UNCHANGED << module, module_kwargs, base_kwargs, tile_list, nprocs, uid,
                    parallel, cur_mapset, start_cur_mapset, num, mapset_names,
                    procs, queue, wait_i, wait_from, handler_i, fatals,
                    warnings, result >>

\* lines 110-112 and verify_mapsets
VerifyMapsets ==
    /\ DispatchFrame
    /\ pc = "verify"
    /\ IF MapsetVerified(cur_mapset, start_cur_mapset)
       THEN /\ result' = [names |-> mapset_names, path |-> LocationPath]
            /\ pc' = "returned"
            /\ UNCHANGED fatals
       ELSE /\ fatals' = Append(fatals, WorkspaceMismatch)
            /\ pc' = "fatal"
            /\ UNCHANGED result
    /\ UNCHANGED << module, module_kwargs, base_kwargs, tile_list, nprocs, uid,
                    parallel, cur_mapset, start_cur_mapset, num, mapset_names,
                    procs, queue, wait_i, wait_from, handler_i, warnings, logs >>

\* a worker process ends, with some result and some stderr
ProcExit(j) ==
    /\ DispatchFrame
    /\ procs[j].st = "running"
    /\ \E rc \in {0, 1}, err \in StderrValues :
          procs' = [procs EXCEPT ![j].st = "exited", ![j].rc = rc,
                                 ![j].stderr = err]
    /\ UNCHANGED << module, module_kwargs, base_kwargs, tile_list, nprocs, uid,
                    parallel, cur_mapset, start_cur_mapset, pc, num,
                    mapset_names, queue, wait_i, wait_from, handler_i, fatals,
                    warnings, logs, result >>

\* a worker that is not confined to a GISRC of its own switches the mapset of
\* the session it shares with the caller (what verify_mapsets guards against)
ProcSwitchesMapset(j) ==
    /\ DispatchFrame
    /\ procs[j].st = "running"
    /\ cur_mapset # procs[j].kwargs["new_mapset"]
    /\ cur_mapset' = procs[j].kwargs["new_mapset"]
    /\ UNCHANGED << module, module_kwargs, base_kwargs, tile_list, nprocs, uid,
                    parallel, start_cur_mapset, pc, num, mapset_names, procs,
                    queue, wait_i, wait_from, handler_i, fatals, warnings, logs,
                    result >>

NextDispatch ==
    \/ Enter
    \/ LoopPut
    \/ LoopRunCommand
    \/ RunCommandReturn
    \/ LoopEnd
    \/ QueueWaitProc
    \/ QueueWaitDone
    \/ ExceptProc
    \/ PrintLogs
    \/ VerifyMapsets
    \/ \E j \in 1..NTiles : ProcExit(j)
    \/ \E j \in 1..NTiles : ProcSwitchesMapset(j)

SpecDispatch == InitDispatch /\ [][NextDispatch]_vars


(***************************************************************************)
(* create_grid: geometry.  Coordinates are whole map units; a region or a  *)
(* polygon is the set of unit squares <<x, y>> (the square from (x, y) to  *)
(* (x + 1, y + 1)) it covers.                                              *)
(***************************************************************************)
\* the unit squares of the rectangle west..east, south..north
Rect(w, e, s, n) == {<<x, y>> : x \in w..(e - 1), y \in s..(n - 1)}

\* the extent of a region
RegionCells(r) == Rect(r.w, r.e, r.s, r.n)

SetMin(S) == CHOOSE x \in S : \A y \in S : x <= y

SetMax(S) == CHOOSE x \in S : \A y \in S : x >= y

\* the unit squares of all features of a vector map
MapCells(features) == UNION {f.cells : f \in features}

\* g.region vector=area: the extent becomes the bounding box of the map, the
\* resolution stays (the coordinates are multiples of it)
RegionOfVector(r, features) ==
    LET c == MapCells(features)
    IN [r EXCEPT !.w = SetMin({p[1] : p \in c}),
                 !.e = SetMax({p[1] : p \in c}) + 1,
                 !.s = SetMin({p[2] : p \in c}),
                 !.n = SetMax({p[2] : p \in c}) + 1]

\* floor(x / res) * res
AlignDown(x, res) == (x \div res) * res

\* variant of AlignUp: the bound is rounded down instead of up
AlignUpFloor(x, res) == (x \div res) * res

\* ceil(x / res) * res
AlignUp(x, res) == ((x + res - 1) \div res) * res

\* g.region res=tile_size -a: the resolution becomes tile_size and the bounds
\* are moved outwards to multiples of it
RegionAligned(r, res) ==
    [n |-> AlignUp(r.n, res), s |-> AlignDown(r.s, res),
     e |-> AlignUp(r.e, res), w |-> AlignDown(r.w, res),
     nsres |-> res, ewres |-> res]

\* abs(region["n"] - region["s"]) and abs(region["w"] - region["e"])
Abs(x) == IF x < 0 THEN 0 - x ELSE x

\* variant of SingleTile: an extent equal to tile_size does not count as fitting
SingleTileStrict(r, t) == Abs(r.n - r.s) < t /\ Abs(r.w - r.e) < t

\* dist_ns <= float(tile_size) and dist_ew <= float(tile_size)
SingleTile(r, t) == Abs(r.n - r.s) <= t /\ Abs(r.w - r.e) <= t

\* v.in.region output=grid followed by v.db.addtable: one area, category 1,
\* covering the current region
VInRegion(r) == { [cat |-> 1, cells |-> RegionCells(r)] }

\* v.mkgrid map=grid box=tile_size,tile_size in region r: boxes from the
\* south-west corner, categories by rows from the north-west box
VMkgrid(r, t) ==
    LET rows == (r.n - r.s) \div t
        cols == (r.e - r.w) \div t
    IN { [cat |-> (i * cols) + j + 1,
          cells |-> Rect(r.w + (j * t), r.w + ((j + 1) * t),
                         r.s + ((rows - i - 1) * t), r.s + ((rows - i) * t))] :
            i \in 0..(rows - 1), j \in 0..(cols - 1) }

\* variant of VSelect: the selected features are trimmed to the area
VSelectClip(afeatures, bfeatures) ==
    { [cat |-> f.cat, cells |-> f.cells \cap MapCells(bfeatures)] :
        f \in { g \in afeatures : g.cells \cap MapCells(bfeatures) # {} } }

\* v.select ainput=grid binput=area operator=overlap: the features of grid
\* that share area with a feature of area, kept whole
VSelect(afeatures, bfeatures) ==
    { f \in afeatures : f.cells \cap MapCells(bfeatures) # {} }

\* variant of VExtract: the where clause is ignored
VExtractAll(features, cat) == features

\* v.extract input=grid_name where="cat == {tile}"
VExtract(features, cat) == { f \in features : f.cat = cat }

RECURSIVE SortedSeq(_)
\* the elements of a set of numbers in ascending order
SortedSeq(S) ==
    IF S = {} THEN << >>
    ELSE <<SetMin(S)>> \o SortedSeq(S \ {SetMin(S)})

\* v.db.select map=grid_name columns=cat -c: the categories, ascending, as the
\* keys of the parsed output
VDbSelect(features) == SortedSeq({f.cat : f \in features})

\* a mapping with one more entry / one entry less
Put(f, k, v) == (k :> v) @@ f

\* variant of Drop: nothing is removed
DropNone(f, k) == f

Drop(f, k) == [x \in (DOMAIN f) \ {k} |-> f[x]]

\* grass.find_file(name=..., element=...)["file"]
FindFile(store, name) == name \in DOMAIN store

(***************************************************************************)
(* create_grid: inputs                                                     *)
(***************************************************************************)
GridPrefixes == { <<"g">> }

GridSids == { <<"4", "2">> }

AreaName == <<"a", "o", "i">>

\* the regions with bounds in 0..MaxCoord and resolution 1
Regions ==
    { [n |-> n, s |-> s, e |-> e, w |-> w, nsres |-> 1, ewres |-> 1] :
        n \in 1..MaxCoord, s \in 0..(MaxCoord - 1),
        e \in 1..MaxCoord, w \in 0..(MaxCoord - 1) }

ValidRegions == { r \in Regions : r.s < r.n /\ r.w < r.e }

\* area maps: a rectangle, or the two opposite corner squares of one, or a
\* map without any feature
AreaMaps ==
    { { [cat |-> 1, cells |-> RegionCells(r)] } : r \in ValidRegions }
    \cup { { [cat |-> 1, cells |-> {<<r.w, r.s>>}],
             [cat |-> 2, cells |-> {<<r.e - 1, r.n - 1>>}] } :
           r \in { q \in ValidRegions : q.e - q.w >= 2 /\ q.n - q.s >= 2 } }
    \cup { {} }

\* orig_region = f"grid_region_{sid}"
OrigRegionName(id) ==
    <<"g", "r", "i", "d", "_", "r", "e", "g", "i", "o", "n", "_">> \o id

\* grid = f"tmp_grid_{sid}"
GridMapName(id) == <<"t", "m", "p", "_", "g", "r", "i", "d", "_">> \o id

\* grid_name = f"tmp_grid_area_{sid}"
GridAreaMapName(id) ==
    <<"t", "m", "p", "_", "g", "r", "i", "d", "_", "a", "r", "e", "a", "_">> \o id

\* tile_area = f"{grid_prefix}_{tile}"
TileAreaName(prefix, cat) == prefix \o <<"_">> \o Dec(cat)

\* no run_module_parallel call is part of the run
DispatchIdle ==
    /\ module = << >>
    /\ module_kwargs = << >>
    /\ base_kwargs = << >>
    /\ tile_list = << >>
    /\ nprocs = 1
    /\ uid = << >>
    /\ parallel = FALSE
    /\ cur_mapset = StartMapset
    /\ start_cur_mapset = << >>
    /\ pc = "idle"
    /\ num = 0
    /\ mapset_names = << >>
    /\ procs = << >>
    /\ queue = NewQueue(0)
    /\ wait_i = 0
    /\ wait_from = "none"
    /\ handler_i = 0
    /\ fatals = << >>
    /\ warnings = << >>
    /\ logs = << >>
    /\ result = [names |-> << >>, path |-> << >>]

InitGrid ==
    /\ DispatchIdle
    /\ PatchIdle
    /\ SwitchIdle
    /\ VImportIdle
    /\ RImportIdle
    /\ FederalStatesIdle
    /\ SetNprocsIdle
    /\ CleanupIdle
    /\ DownloadIdle
    /\ tile_size \in 1..MaxTileSize
    /\ grid_prefix \in GridPrefixes
    /\ sid \in GridSids
    /\ region \in ValidRegions
    /\ region_at_call = region
    /\ saved_regions = << >>
    /\ \/ area = << >> /\ vectors = << >>
       \/ area = AreaName /\ \E m \in AreaMaps : vectors = Put(<< >>, AreaName, m)
    /\ g_pc = "save_region"
    /\ orig_region = << >>
    /\ grid = << >>
    /\ grid_name = << >>
    /\ tiles_num_list = << >>
    /\ number_tiles = 0
    /\ tiles_list = << >>
    /\ g_i = 0
    /\ g_error = "none"
    /\ g_return = << >>

(***************************************************************************)
(* create_grid: actions.  Every GRASS command the function runs either     *)
(* does its work or fails, and a failure raises out of create_grid.        *)
(***************************************************************************)
\* grass.run_command / grass.parse_command raises CalledModuleError
Raises ==
    /\ g_pc' = "error"
    /\ g_error' = "CalledModuleError"

\* lines 36-37: g.region save=orig_region
GRegionSave ==
    /\ GridFrame
    /\ g_pc = "save_region"
    /\ orig_region' = OrigRegionName(sid)
    /\ \E ok \in BOOLEAN :
          IF ok
          THEN /\ saved_regions' = Put(saved_regions, OrigRegionName(sid), region)
               /\ g_pc' = "set_area"
               /\ UNCHANGED g_error
          ELSE /\ Raises
               /\ UNCHANGED saved_regions
    /\ UNCHANGED << tile_size, grid_prefix, sid, area, region, region_at_call,
                    vectors, grid, grid_name, tiles_num_list, number_tiles,
                    tiles_list, g_i, g_return >>

\* lines 39-41: g.region vector=area, if an area is given; for a map without
\* features the extent g.region computes is left open here (it stays, or the
\* command fails): no box of any grid overlaps such a map
GRegionVector ==
    /\ GridFrame
    /\ g_pc = "set_area"
    /\ IF area # << >>
       THEN \E ok \in BOOLEAN :
               IF ok
               THEN /\ region' = IF vectors[area] = {} THEN region
                                 ELSE RegionOfVector(region, vectors[area])
                    /\ g_pc' = "measure"
                    /\ UNCHANGED g_error
               ELSE /\ Raises
                    /\ UNCHANGED region
       ELSE /\ g_pc' = "measure"
            /\ UNCHANGED << region, g_error >>
    /\ UNCHANGED << tile_size, grid_prefix, sid, area, region_at_call,
                    saved_regions, vectors, orig_region, grid, grid_name,
                    tiles_num_list, number_tiles, tiles_list, g_i, g_return >>

\* lines 43-50: the extents of the region against tile_size
Measure ==
    /\ GridFrame
    /\ g_pc = "measure"
    /\ grid' = GridMapName(sid)
    /\ g_pc' = IF SingleTile(region, tile_size) THEN "v_in_region"
               ELSE "g_region_res"
    /\ UNCHANGED << tile_size, grid_prefix, sid, area, region, region_at_call,
                    saved_regions, vectors, orig_region, grid_name,
                    tiles_num_list, number_tiles, tiles_list, g_i, g_error,
                    g_return >>

\* line 51: v.in.region output=grid
VInRegionRun ==
    /\ GridFrame
    /\ g_pc = "v_in_region"
    /\ \E ok \in BOOLEAN :
          IF ok
          THEN /\ vectors' = Put(vectors, grid, VInRegion(region))
               /\ g_pc' = "v_db_addtable"
               /\ UNCHANGED g_error
          ELSE /\ Raises
               /\ UNCHANGED vectors
    /\ UNCHANGED << tile_size, grid_prefix, sid, area, region, region_at_call,
                    saved_regions, orig_region, grid, grid_name,
                    tiles_num_list, number_tiles, tiles_list, g_i, g_return >>

\* lines 52-57: v.db.addtable map=grid
VDbAddtable ==
    /\ GridFrame
    /\ g_pc = "v_db_addtable"
    /\ \E ok \in BOOLEAN :
          IF ok
          THEN /\ g_pc' = "reset_region"
               /\ UNCHANGED g_error
          ELSE Raises
    /\ UNCHANGED << tile_size, grid_prefix, sid, area, region, region_at_call,
                    saved_regions, vectors, orig_region, grid, grid_name,
                    tiles_num_list, number_tiles, tiles_list, g_i, g_return >>

\* lines 59-60: g.region res=tile_size -a
GRegionRes ==
    /\ GridFrame
    /\ g_pc = "g_region_res"
    /\ \E ok \in BOOLEAN :
          IF ok
          THEN /\ region' = RegionAligned(region, tile_size)
               /\ g_pc' = "v_mkgrid"
               /\ UNCHANGED g_error
          ELSE /\ Raises
               /\ UNCHANGED region
    /\ UNCHANGED << tile_size, grid_prefix, sid, area, region_at_call,
                    saved_regions, vectors, orig_region, grid, grid_name,
                    tiles_num_list, number_tiles, tiles_list, g_i, g_return >>

\* lines 62-68: v.mkgrid map=grid box=tile_size,tile_size
VMkgridRun ==
    /\ GridFrame
    /\ g_pc = "v_mkgrid"
    /\ \E ok \in BOOLEAN :
          IF ok
          THEN /\ vectors' = Put(vectors, grid, VMkgrid(region, tile_size))
               /\ g_pc' = "reset_region"
               /\ UNCHANGED g_error
          ELSE /\ Raises
               /\ UNCHANGED vectors
    /\ UNCHANGED << tile_size, grid_prefix, sid, area, region, region_at_call,
                    saved_regions, orig_region, grid, grid_name,
                    tiles_num_list, number_tiles, tiles_list, g_i, g_return >>

\* line 70 and reset_region (cleanup.py 163-172): g.region region=region
ResetRegion ==
    /\ GridFrame
    /\ g_pc = "reset_region"
    /\ IF orig_region # << >> /\ FindFile(saved_regions, orig_region)
       THEN \E ok \in BOOLEAN :
               IF ok
               THEN /\ region' = saved_regions[orig_region]
                    /\ g_pc' = "reset_remove"
                    /\ UNCHANGED g_error
               ELSE /\ Raises
                    /\ UNCHANGED region
       ELSE /\ g_pc' = "v_select"
            /\ UNCHANGED << region, g_error >>
    /\ UNCHANGED << tile_size, grid_prefix, sid, area, region_at_call,
                    saved_regions, vectors, orig_region, grid, grid_name,
                    tiles_num_list, number_tiles, tiles_list, g_i, g_return >>

\* reset_region (cleanup.py 173): g.remove type=region name=region
ResetRegionRemove ==
    /\ GridFrame
    /\ g_pc = "reset_remove"
    /\ \E ok \in BOOLEAN :
          IF ok
          THEN /\ saved_regions' = Drop(saved_regions, orig_region)
               /\ g_pc' = "v_select"
               /\ UNCHANGED g_error
          ELSE /\ Raises
               /\ UNCHANGED saved_regions
    /\ UNCHANGED << tile_size, grid_prefix, sid, area, region, region_at_call,
                    vectors, orig_region, grid, grid_name, tiles_num_list,
                    number_tiles, tiles_list, g_i, g_return >>

\* lines 72-81, 89-90: v.select of the grid boxes overlapping area, if an area
\* is given; without a selected feature no output map is written
VSelectRun ==
    /\ GridFrame
    /\ g_pc = "v_select"
    /\ IF area # << >>
       THEN /\ grid_name' = GridAreaMapName(sid)
            /\ \E ok \in BOOLEAN :
                  IF ok
                  THEN /\ LET sel == VSelect(vectors[grid], vectors[area])
                          IN vectors' = IF sel = {} THEN vectors
                                        ELSE Put(vectors, GridAreaMapName(sid), sel)
                       /\ g_pc' = "find_file"
                       /\ UNCHANGED g_error
                  ELSE /\ Raises
                       /\ UNCHANGED vectors
       ELSE /\ grid_name' = grid
            /\ g_pc' = "v_db_select"
            /\ UNCHANGED << vectors, g_error >>
    /\ UNCHANGED << tile_size, grid_prefix, sid, area, region, region_at_call,
                    saved_regions, orig_region, grid, tiles_num_list,
                    number_tiles, tiles_list, g_i, g_return >>

\* lines 82-88: grass.fatal when v.select wrote no map
FindSelected ==
    /\ GridFrame
    /\ g_pc = "find_file"
    /\ IF ~FindFile(vectors, grid_name)
       THEN /\ g_pc' = "error"
            /\ g_error' = "RegionMismatch"
       ELSE /\ g_pc' = "v_db_select"
            /\ UNCHANGED g_error
    /\ UNCHANGED << tile_size, grid_prefix, sid, area, region, region_at_call,
                    saved_regions, vectors, orig_region, grid, grid_name,
                    tiles_num_list, number_tiles, tiles_list, g_i, g_return >>

\* lines 92-105: the categories of the tiles
VDbSelectRun ==
    /\ GridFrame
    /\ g_pc = "v_db_select"
    /\ \E ok \in BOOLEAN :
          IF ok
          THEN /\ tiles_num_list' = VDbSelect(vectors[grid_name])
               /\ number_tiles' = Len(VDbSelect(vectors[grid_name]))
               /\ tiles_list' = << >>
               /\ g_i' = 1
               /\ g_pc' = "v_extract"
               /\ UNCHANGED g_error
          ELSE /\ Raises
               /\ UNCHANGED << tiles_num_list, number_tiles, tiles_list, g_i >>
    /\ UNCHANGED << tile_size, grid_prefix, sid, area, region, region_at_call,
                    saved_regions, vectors, orig_region, grid, grid_name,
                    g_return >>

\* lines 106-116: one pass of the loop over tiles_num_list
VExtractRun ==
    /\ GridFrame
    /\ g_pc = "v_extract"
    /\ g_i <= Len(tiles_num_list)
    /\ \E ok \in BOOLEAN :
          IF ok
          THEN LET tile == tiles_num_list[g_i]
                   tile_area == TileAreaName(grid_prefix, tile)
               IN /\ vectors' = Put(vectors, tile_area,
                                    VExtract(vectors[grid_name], tile))
                  /\ tiles_list' = Append(tiles_list, tile_area)
                  /\ g_i' = g_i + 1
                  /\ UNCHANGED << g_pc, g_error >>
          ELSE /\ Raises
               /\ UNCHANGED << vectors, tiles_list, g_i >>
    /\ UNCHANGED << tile_size, grid_prefix, sid, area, region, region_at_call,
                    saved_regions, orig_region, grid, grid_name,
                    tiles_num_list, number_tiles, g_return >>

\* line 106: the loop over tiles_num_list is over
VExtractDone ==
    /\ GridFrame
    /\ g_pc = "v_extract"
    /\ g_i > Len(tiles_num_list)
    /\ g_i' = 1
    /\ g_pc' = "rm_vects"
    /\ UNCHANGED << tile_size, grid_prefix, sid, area, region, region_at_call,
                    saved_regions, vectors, orig_region, grid, grid_name,
                    tiles_num_list, number_tiles, tiles_list, g_error,
                    g_return >>

\* line 119 and rm_vects (cleanup.py 151-160): one pass over [grid, grid_name]
RmVects ==
    /\ GridFrame
    /\ g_pc = "rm_vects"
    /\ g_i <= 2
    /\ LET rmv == <<grid, grid_name>>[g_i]
       IN IF FindFile(vectors, rmv)
          THEN \E ok \in BOOLEAN :
                  IF ok
                  THEN /\ vectors' = Drop(vectors, rmv)
                       /\ g_i' = g_i + 1
                       /\ UNCHANGED << g_pc, g_error >>
                  ELSE /\ Raises
                       /\ UNCHANGED << vectors, g_i >>
          ELSE /\ g_i' = g_i + 1
               /\ UNCHANGED << vectors, g_pc, g_error >>
    /\ UNCHANGED << tile_size, grid_prefix, sid, area, region, region_at_call,
                    saved_regions, orig_region, grid, grid_name,
                    tiles_num_list, number_tiles, tiles_list, g_return >>

\* line 121: return tiles_list
GridReturn ==
    /\ GridFrame
    /\ g_pc = "rm_vects"
    /\ g_i > 2
    /\ g_return' = tiles_list
    /\ g_pc' = "done"
    /\ UNCHANGED << tile_size, grid_prefix, sid, area, region, region_at_call,
                    saved_regions, vectors, orig_region, grid, grid_name,
                    tiles_num_list, number_tiles, tiles_list, g_i, g_error >>

NextGrid ==
    \/ GRegionSave
    \/ GRegionVector
    \/ Measure
    \/ VInRegionRun
    \/ VDbAddtable
    \/ GRegionRes
    \/ VMkgridRun
    \/ ResetRegion
    \/ ResetRegionRemove
    \/ VSelectRun
    \/ FindSelected
    \/ VDbSelectRun
    \/ VExtractRun
    \/ VExtractDone
    \/ RmVects
    \/ GridReturn

SpecGrid == InitGrid /\ [][NextGrid]_vars

(***************************************************************************)
(* patching_vector_results and patching_raster_results.  A vector map is   *)
(* the sequence of its features, a raster map a function from the cells to *)
(* their values, 0 standing for the null value.                            *)
(***************************************************************************)
\* f"{output}@{m}"
QualifiedName(out, m) == out \o <<"@">> \o m

\* variant of SubsetMapset: the references are listed in reversed order
SubsetMapsetReversed(ms, out) ==
    [i \in 1..Len(ms) |-> QualifiedName(out, ms[Len(ms) + 1 - i])]

\* subset_mapset = [f"{output}@{m}" for m in mapsets]
SubsetMapset(ms, out) == [i \in 1..Len(ms) |-> QualifiedName(out, ms[i])]

\* variant of CopyArg: source and target are swapped
CopyArgSwapped(out, m) == out \o <<",">> \o QualifiedName(out, m)

\* f"{output}@{mapsets[0]},{output}"
CopyArg(out, m) == QualifiedName(out, m) \o <<",">> \o out

\* g.copy reads its argument as from,to
CommaAt(arg) == SetMin({i \in 1..Len(arg) : arg[i] = ","})

CopyFrom(arg) == SubSeq(arg, 1, CommaAt(arg) - 1)

CopyTo(arg) == SubSeq(arg, CommaAt(arg) + 1, Len(arg))

\* g.copy vector=from,to / raster=from,to with overwrite
GCopy(store, arg) == Put(store, CopyTo(arg), store[CopyFrom(arg)])

RECURSIVE VPatch(_, _)
\* v.patch -e: the features (and attribute rows) of the inputs, appended in
\* the order of the inputs
VPatch(store, input) ==
    IF input = << >> THEN << >>
    ELSE store[Head(input)] \o VPatch(store, Tail(input))

\* the cells of the rasters
PatchCells == 0..MaxTiles

\* r.patch: every cell takes the value of the first input that is not null there
RPatch(store, input) ==
    [c \in PatchCells |->
        LET filled == {i \in 1..Len(input) : store[input[i]][c] # 0}
        IN IF filled = {} THEN 0 ELSE store[input[SetMin(filled)]][c]]

\* the arguments: output name, workspaces as run_module_parallel names them
PatchOutputs == { <<"o", "u", "t">> }

PatchWorkspace(i) == NewMapsetName(<<"v", "x">>, i - 1, <<"7">>)

\* the lists of different workspaces, the empty list included
WorkspaceLists ==
    { [i \in DOMAIN f |-> PatchWorkspace(f[i])] :
        f \in { g \in UNION {[1..n -> 1..MaxTiles] : n \in 0..MaxTiles} :
                  \A i, k \in DOMAIN g : i # k => g[i] # g[k] } }

\* what the job of workspace i wrote: a feature of its own and one on the
\* shared tile boundary; a raster filled in its own cell and in the shared one
SubsetContent(kind, i) ==
    IF kind = "vector" THEN <<i, 0>>
    ELSE [c \in PatchCells |-> IF c = 0 \/ c = i THEN i ELSE 0]

\* a map named output that exists in the caller's mapset before the call
OldContent(kind) ==
    IF kind = "vector" THEN <<MaxTiles + 1>>
    ELSE [c \in PatchCells |-> MaxTiles + 1]

\* the maps of the location when some workspaces hold output and the
\* caller's mapset holds an older output or none
PatchStore(kind, out, present, old) ==
    [k \in {QualifiedName(out, PatchWorkspace(i)) : i \in present}
           \cup (IF old THEN {out} ELSE {}) |->
        IF k = out THEN OldContent(kind)
        ELSE SubsetContent(kind,
                 CHOOSE i \in present : QualifiedName(out, PatchWorkspace(i)) = k)]

InitPatch ==
    /\ DispatchIdle
    /\ GridIdle
    /\ SwitchIdle
    /\ VImportIdle
    /\ RImportIdle
    /\ FederalStatesIdle
    /\ SetNprocsIdle
    /\ CleanupIdle
    /\ DownloadIdle
    /\ p_kind \in {"vector", "raster"}
    /\ mapsets \in WorkspaceLists
    /\ output \in PatchOutputs
    /\ \E present \in SUBSET (1..MaxTiles), old \in BOOLEAN :
          maps = PatchStore(p_kind, output, present, old)
    /\ p_pc = "start"
    /\ commands = << >>
    /\ p_error = "none"

\* lines 117-118, 138-139: the message and the test len(mapsets) > 1
PatchingMessage ==
    /\ PatchFrame
    /\ p_pc = "start"
    /\ p_pc' = IF Len(mapsets) > 1 THEN "patch" ELSE "copy"
    /\ UNCHANGED << p_kind, mapsets, output, maps, commands, p_error >>

\* lines 119-127, 140-147: v.patch -e / r.patch over subset_mapset; the
\* command fails when an input is missing (or for a reason of its own)
PatchRun ==
    /\ PatchFrame
    /\ p_pc = "patch"
    /\ LET subset_mapset == SubsetMapset(mapsets, output)
       IN /\ commands' = Append(commands,
                [tool |-> IF p_kind = "vector" THEN "v.patch" ELSE "r.patch",
                 input |-> subset_mapset,
                 output |-> output,
                 flags |-> IF p_kind = "vector" THEN "e" ELSE "",
                 overwrite |-> TRUE])
          /\ \E ok \in BOOLEAN :
                IF ok /\ \A i \in 1..Len(subset_mapset) :
                             FindFile(maps, subset_mapset[i])
                THEN /\ maps' = Put(maps, output,
                                    IF p_kind = "vector"
                                    THEN VPatch(maps, subset_mapset)
                                    ELSE RPatch(maps, subset_mapset))
                     /\ p_pc' = "returned"
                     /\ UNCHANGED p_error
                ELSE /\ p_pc' = "error"
                     /\ p_error' = "CalledModuleError"
                     /\ UNCHANGED maps
    /\ UNCHANGED << p_kind, mapsets, output >>

\* lines 128-133, 148-153: g.copy of output@mapsets[0]; mapsets[0] of an
\* empty list raises IndexError before any command runs
CopyRun ==
    /\ PatchFrame
    /\ p_pc = "copy"
    /\ IF Len(mapsets) = 0
       THEN /\ p_pc' = "error"
            /\ p_error' = "IndexError"
            /\ UNCHANGED << maps, commands >>
       ELSE LET arg == CopyArg(output, mapsets[1])
            IN /\ commands' = Append(commands,
                     [tool |-> "g.copy", element |-> p_kind, arg |-> arg,
                      overwrite |-> TRUE])
               /\ \E ok \in BOOLEAN :
                     IF ok /\ FindFile(maps, CopyFrom(arg))
                     THEN /\ maps' = GCopy(maps, arg)
                          /\ p_pc' = "returned"
                          /\ UNCHANGED p_error
                     ELSE /\ p_pc' = "error"
                          /\ p_error' = "CalledModuleError"
                          /\ UNCHANGED maps
    /\ UNCHANGED << p_kind, mapsets, output >>

NextPatch ==
    \/ PatchingMessage
    \/ PatchRun
    \/ CopyRun

SpecPatch == InitPatch /\ [][NextPatch]_vars

(***************************************************************************)
(* switch_to_new_mapset.  The session is the GISRC file the environment    *)
(* variable GISRC points to; grass.gisenv() reads it, g.mapset writes it.  *)
(***************************************************************************)
\* a GISRC file of the location naming mapset m
GisrcFile(m) ==
    [GISDBASE |-> <<"/", "d", "b">>, LOCATION_NAME |-> <<"l", "o", "c">>,
     MAPSET |-> m]

\* grass.gisenv(): the variables of the GISRC file the environment points to
GisEnv(fs, path) == fs[path]

\* variant of NewGisrcName: the GISRC file at entry is used itself
NewGisrcNameSame(path, p) == path

\* newgisrc = f"{gisrc}_{os.getpid()}"
NewGisrcName(path, p) == path \o <<"_">> \o Dec(p)

\* the arguments and the session at the call
SwitchMapsets == { NewMapsetName(<<"v", "x">>, 0, <<"7">>), <<"Q">> }

GisrcPaths == { <<"r", "c">>, <<"r", "c", "_", "5">> }

Pids == {5, 12}

\* a mapset directory: locked or not, made before the call or by it
MapsetDir(lock, by) == [gislock |-> lock, made |-> by]

InitSwitch ==
    /\ DispatchIdle
    /\ GridIdle
    /\ PatchIdle
    /\ VImportIdle
    /\ RImportIdle
    /\ FederalStatesIdle
    /\ SetNprocsIdle
    /\ CleanupIdle
    /\ DownloadIdle
    /\ s_new_mapset \in SwitchMapsets
    /\ new \in BOOLEAN
    /\ pid \in Pids
    /\ environ_gisrc \in GisrcPaths
    /\ \E stale \in BOOLEAN :
          files = IF stale
                  THEN Put(Put(<< >>, environ_gisrc, GisrcFile(StartMapset)),
                           NewGisrcName(environ_gisrc, pid), GisrcFile(<<"Q">>))
                  ELSE Put(<< >>, environ_gisrc, GisrcFile(StartMapset))
    /\ \E there \in BOOLEAN, lock \in BOOLEAN :
          mapset_dirs =
              IF there
              THEN Put(Put(<< >>, StartMapset, MapsetDir(TRUE, "before")),
                       s_new_mapset, MapsetDir(lock, "before"))
              ELSE Put(<< >>, StartMapset, MapsetDir(TRUE, "before"))
    /\ gisrc_at_call = environ_gisrc
    /\ files_at_call = files
    /\ s_pc = "gisenv"
    /\ gisrc = << >>
    /\ newgisrc = << >>
    /\ old_mapset = << >>
    /\ s_error = "none"
    /\ s_return = << >>

\* lines 40-43: env = grass.gisenv(); old_mapset = env["MAPSET"]
SwitchGisenv ==
    /\ SwitchFrame
    /\ s_pc = "gisenv"
    /\ old_mapset' = GisEnv(files, environ_gisrc).MAPSET
    /\ s_pc' = "prepare"
    /\ UNCHANGED << s_new_mapset, new, pid, environ_gisrc, files, mapset_dirs,
                    gisrc_at_call, files_at_call, gisrc, newgisrc, s_error,
                    s_return >>

\* lines 45-52: try_rmdir of the mapset directory (new) or try_remove of its
\* .gislock (not new); both give up silently when they cannot remove
SwitchPrepare ==
    /\ SwitchFrame
    /\ s_pc = "prepare"
    /\ IF FindFile(mapset_dirs, s_new_mapset)
       THEN \E ok \in BOOLEAN :
               mapset_dirs' =
                   IF ~ok THEN mapset_dirs
                   ELSE IF new THEN Drop(mapset_dirs, s_new_mapset)
                   ELSE [mapset_dirs EXCEPT ![s_new_mapset].gislock = FALSE]
       ELSE UNCHANGED mapset_dirs
    /\ s_pc' = "copy"
    /\ UNCHANGED << s_new_mapset, new, pid, environ_gisrc, files,
                    gisrc_at_call, files_at_call, gisrc, newgisrc, old_mapset,
                    s_error, s_return >>

\* lines 54-58: the per-process copy of the GISRC file becomes the session
SwitchCopyGisrc ==
    /\ SwitchFrame
    /\ s_pc = "copy"
    /\ gisrc' = environ_gisrc
    /\ newgisrc' = NewGisrcName(environ_gisrc, pid)
    /\ \E ok \in BOOLEAN :
          IF ok
          THEN /\ files' = Put(Drop(files, NewGisrcName(environ_gisrc, pid)),
                               NewGisrcName(environ_gisrc, pid),
                               files[environ_gisrc])
               /\ environ_gisrc' = NewGisrcName(environ_gisrc, pid)
               /\ s_pc' = "g_mapset"
               /\ UNCHANGED s_error
          ELSE /\ files' = Drop(files, NewGisrcName(environ_gisrc, pid))
               /\ s_pc' = "error"
               /\ s_error' = "OSError"
               /\ UNCHANGED environ_gisrc
    /\ UNCHANGED << s_new_mapset, new, pid, mapset_dirs, gisrc_at_call,
                    files_at_call, old_mapset, s_return >>

\* lines 60-61: g.mapset -c mapset=new_mapset.  It creates the mapset if
\* needed, locks it and writes MAPSET into the session's GISRC file; it fails
\* for a mapset that is locked (or for a reason of its own); the test that
\* follows in the source is there for a g.mapset that reports success
\* without the session naming the new mapset
SwitchGMapset ==
    /\ SwitchFrame
    /\ s_pc = "g_mapset"
    /\ \E outcome \in {"switched", "failed", "stayed"} :
          IF outcome = "switched"
             /\ (FindFile(mapset_dirs, s_new_mapset)
                    => ~mapset_dirs[s_new_mapset].gislock)
          THEN /\ files' = [files EXCEPT ![environ_gisrc].MAPSET = s_new_mapset]
               /\ mapset_dirs' =
                     Put([mapset_dirs EXCEPT ![old_mapset].gislock = FALSE],
                         s_new_mapset,
                         MapsetDir(TRUE,
                             IF FindFile(mapset_dirs, s_new_mapset)
                             THEN mapset_dirs[s_new_mapset].made
                             ELSE "by_call"))
               /\ s_pc' = "verify"
               /\ UNCHANGED s_error
          ELSE IF outcome = "stayed"
          THEN /\ s_pc' = "verify"
               /\ UNCHANGED << files, mapset_dirs, s_error >>
          ELSE /\ s_pc' = "error"
               /\ s_error' = "CalledModuleError"
               /\ UNCHANGED << files, mapset_dirs >>
    /\ UNCHANGED << s_new_mapset, new, pid, environ_gisrc, gisrc_at_call,
                    files_at_call, gisrc, newgisrc, old_mapset, s_return >>

\* lines 63-67: the test of the switch, grass.fatal or the return
SwitchVerify ==
    /\ SwitchFrame
    /\ s_pc = "verify"
    /\ LET cur == GisEnv(files, environ_gisrc).MAPSET
       IN IF cur # s_new_mapset
          THEN /\ s_pc' = "error"
               /\ s_error' = "fatal"
               /\ UNCHANGED s_return
          ELSE /\ s_return' = <<gisrc, newgisrc, old_mapset>>
               /\ s_pc' = "returned"
               /\ UNCHANGED s_error
    /\ UNCHANGED << s_new_mapset, new, pid, environ_gisrc, files, mapset_dirs,
                    gisrc_at_call, files_at_call, gisrc, newgisrc, old_mapset >>

NextSwitch ==
    \/ SwitchGisenv
    \/ SwitchPrepare
    \/ SwitchCopyGisrc
    \/ SwitchGMapset
    \/ SwitchVerify

SpecSwitch == InitSwitch /\ [][NextSwitch]_vars

(***************************************************************************)
(* import_local_vector_data and patch_vectors.  A vector map is known by   *)
(* what v.info -gt reports of it: its centroids (one per area) and points. *)
(***************************************************************************)
MaxFiles == 2

\* what a vector file holds inside the region: nothing, an area, or a point
FileData ==
    { [centroids |-> 0, points |-> 0],
      [centroids |-> 1, points |-> 0],
      [centroids |-> 0, points |-> 1] }

\* the files below a local data directory, of any kind
DataDirs ==
    UNION { [1..n -> [ext : {"gpkg", "shp", "txt"}, data : FileData]] :
              n \in 0..MaxFiles }

\* glob.glob(os.path.join(local_data_dir, "**", "*.{ext}"), recursive=True)
Glob(dir, ext) == SelectSeq(dir, LAMBDA f : f.ext = ext)

\* files = glob(*.gpkg); files.extend(glob(*.shp))
VectorFiles(dir) == Glob(dir, "gpkg") \o Glob(dir, "shp")

\* f"{output}_{i}"
ImportName(out, i) == out \o <<"_">> \o Dec(i)

RECURSIVE SumCentroids(_, _)
SumCentroids(store, names) ==
    IF names = << >> THEN 0
    ELSE store[Head(names)].centroids + SumCentroids(store, Tail(names))

RECURSIVE SumPoints(_, _)
SumPoints(store, names) ==
    IF names = << >> THEN 0
    ELSE store[Head(names)].points + SumPoints(store, Tail(names))

\* v.patch -e input=vector_list: the features of all inputs
VPatchInfo(store, names) ==
    [centroids |-> SumCentroids(store, names), points |-> SumPoints(store, names)]

\* g.rename vector=from,to
GRename(store, from, to) == Put(Drop(store, from), to, store[from])

InitVImport ==
    /\ DispatchIdle
    /\ GridIdle
    /\ PatchIdle
    /\ SwitchIdle
    /\ RImportIdle
    /\ FederalStatesIdle
    /\ SetNprocsIdle
    /\ CleanupIdle
    /\ DownloadIdle
    /\ local_data_dir \in DataDirs
    /\ aoi_map \in { << >>, AreaName }
    /\ rm_vectors = << >>
    /\ vi_output = <<"o", "u", "t">>
    /\ vi_maps = IF aoi_map = << >> THEN << >>
                 ELSE Put(<< >>, aoi_map, [centroids |-> 1, points |-> 0])
    /\ vi_region = "caller"
    /\ imported_list = << >>
    /\ vi_i = 0
    /\ vi_pc = "glob"
    /\ vi_error = "none"
    /\ vi_return = "none"

\* data_import.py 440-454: the files are listed, imported_list = []
ViGlob ==
    /\ VImportFrame
    /\ vi_pc = "glob"
    /\ imported_list' = << >>
    /\ vi_i' = 0
    /\ vi_pc' = "import"
    /\ UNCHANGED << local_data_dir, aoi_map, rm_vectors, vi_output, vi_maps,
                    vi_region, vi_error, vi_return >>

\* data_import.py 455-469: one pass of the loop: g.region vector=aoi_map (if
\* given) and v.import of the file as {output}_{i}; a failing command raises
ViImportFile ==
    /\ VImportFrame
    /\ vi_pc = "import"
    /\ vi_i < Len(VectorFiles(local_data_dir))
    /\ \E region_ok \in BOOLEAN, import_ok \in BOOLEAN :
          LET file == VectorFiles(local_data_dir)[vi_i + 1]
              name == ImportName(vi_output, vi_i)
          IN /\ vi_region' = IF aoi_map # << >> /\ region_ok THEN "aoi"
                             ELSE vi_region
             /\ IF (aoi_map # << >> => region_ok) /\ import_ok
                THEN /\ vi_maps' = Put(vi_maps, name, file.data)
                     /\ imported_list' = Append(imported_list, name)
                     /\ vi_i' = vi_i + 1
                     /\ UNCHANGED << vi_pc, vi_error >>
                ELSE /\ vi_pc' = "error"
                     /\ vi_error' = "CalledModuleError"
                     /\ UNCHANGED << vi_maps, imported_list, vi_i >>
    /\ UNCHANGED << local_data_dir, aoi_map, rm_vectors, vi_output, vi_return >>

\* data_import.py 455: the loop over the files is over
ViLoopEnd ==
    /\ VImportFrame
    /\ vi_pc = "import"
    /\ vi_i = Len(VectorFiles(local_data_dir))
    /\ vi_pc' = "patch"
    /\ UNCHANGED << local_data_dir, aoi_map, rm_vectors, vi_output, vi_maps,
                    vi_region, imported_list, vi_i, vi_error, vi_return >>

\* data_import.py 472 and patch_vectors (vector.py 37-52): v.patch of several
\* vectors, otherwise g.rename of vector_list[0], which raises IndexError for
\* an empty list
ViPatchVectors ==
    /\ VImportFrame
    /\ vi_pc = "patch"
    /\ IF Len(imported_list) > 1
       THEN \E ok \in BOOLEAN :
               IF ok
               THEN /\ vi_maps' = Put(vi_maps, vi_output,
                                      VPatchInfo(vi_maps, imported_list))
                    /\ rm_vectors' = rm_vectors \o imported_list
                    /\ vi_pc' = "v_info"
                    /\ UNCHANGED vi_error
               ELSE /\ vi_pc' = "error"
                    /\ vi_error' = "CalledModuleError"
                    /\ UNCHANGED << vi_maps, rm_vectors >>
       ELSE IF Len(imported_list) = 0
       THEN /\ vi_pc' = "error"
            /\ vi_error' = "IndexError"
            /\ UNCHANGED << vi_maps, rm_vectors >>
       ELSE \E ok \in BOOLEAN :
               IF ok /\ ~FindFile(vi_maps, vi_output)
               THEN /\ vi_maps' = GRename(vi_maps, imported_list[1], vi_output)
                    /\ vi_pc' = "v_info"
                    /\ UNCHANGED << rm_vectors, vi_error >>
               ELSE /\ vi_pc' = "error"
                    /\ vi_error' = "CalledModuleError"
                    /\ UNCHANGED << vi_maps, rm_vectors >>
    /\ UNCHANGED << local_data_dir, aoi_map, vi_output, vi_region,
                    imported_list, vi_i, vi_return >>

\* data_import.py 474-483: v.info -gt map=output; int(map_info["centroids"]) > 0
ViInfo ==
    /\ VImportFrame
    /\ vi_pc = "v_info"
    /\ \E ok \in BOOLEAN :
          IF ok
          THEN /\ vi_return' = (vi_maps[vi_output].centroids > 0)
               /\ vi_pc' = "returned"
               /\ UNCHANGED vi_error
          ELSE /\ vi_pc' = "error"
               /\ vi_error' = "CalledModuleError"
               /\ UNCHANGED vi_return
    /\ UNCHANGED << local_data_dir, aoi_map, rm_vectors, vi_output, vi_maps,
                    vi_region, imported_list, vi_i >>

NextVImport ==
    \/ ViGlob
    \/ ViImportFile
    \/ ViLoopEnd
    \/ ViPatchVectors
    \/ ViInfo

SpecVImport == InitVImport /\ [][NextVImport]_vars

(***************************************************************************)
(* import_local_raster_data.  The stderr of r.import is a sequence of      *)
(* messages; the list-or-dict accumulator carries its kind.                *)
(***************************************************************************)
\* err_m1 and err_m2 of the source
ErrM1 == <<"Input raster does not overlap current computational region.">>

ErrM2 == <<"already exists and will be overwritten">>

\* what r.import writes to stderr for a file
ImportStderrs ==
    { << >>,
      <<"ERROR:">> \o ErrM1,
      <<"WARNING:", "Raster map">> \o ErrM2,
      <<"ERROR:", "Unable to open datasource">> }

\* the raster files below a local data directory
RasterDirs ==
    UNION { [1..n -> [ext : {"vrt", "tif"}, stderr : ImportStderrs]] :
              n \in 0..MaxFiles }

\* raster_files: the VRT files if there is one, otherwise the TIF files
RasterFiles(dir) ==
    IF Glob(dir, "vrt") # << >> THEN Glob(dir, "vrt") ELSE Glob(dir, "tif")

\* band_dict as passed: none, or band numbers with their names
BandDicts ==
    { "None",
      << [band_num |-> <<"1">>, band |-> <<"r">>],
         [band_num |-> <<"2">>, band |-> <<"n">>] >> }

\* band_dict.items(), with the default {"": ""} for None
BandItems(bd) ==
    IF bd = "None" THEN << [band_num |-> << >>, band |-> << >>] >> ELSE bd

\* the bands of band_dict
Bands(bd) == { BandItems(bd)[k].band : k \in 1..Len(BandItems(bd)) }

\* the accumulators a caller may pass, all without any raster name: a list,
\* a dict with the bands as keys, one with a further key, one without keys
Accumulators(bd) ==
    { [kind |-> "list", val |-> << >>],
      [kind |-> "dict", val |-> [b \in Bands(bd) |-> << >>]],
      [kind |-> "dict", val |-> [b \in Bands(bd) \cup {<<"x">>} |-> << >>]],
      [kind |-> "dict", val |-> << >>] }

\* name = f"{basename}_{i}"
RasterName(i) == <<"b", "_">> \o Dec(i)

\* variant of BandNameOld: the name after the renaming is taken
BandNameOldAsNew(name, item) ==
    IF item.band_num # << >> THEN name \o <<".">> \o item.band ELSE name

\* band_name_old = f"{name}.{band_num}" if band_num != "" else name
BandNameOld(name, item) ==
    IF item.band_num # << >> THEN name \o <<".">> \o item.band_num ELSE name

\* band_name_new = f"{name}.{band}" if band_num != "" else name
BandNameNew(name, item) ==
    IF item.band_num # << >> THEN name \o <<".">> \o item.band ELSE name

\* all_raster[band].append(x) / all_raster.append(x)
Accumulate(acc, band, x) ==
    IF acc.kind = "dict"
    THEN [acc EXCEPT !.val[band] = Append(acc.val[band], x)]
    ELSE [acc EXCEPT !.val = Append(acc.val, x)]

\* lines 215-220: all bands have a raster / the list has one
ImportedLocalData(acc) ==
    IF acc.kind = "dict"
    THEN \A b \in DOMAIN acc.val : Len(acc.val[b]) > 0
    ELSE Len(acc.val) > 0

InitRImport ==
    /\ DispatchIdle
    /\ GridIdle
    /\ PatchIdle
    /\ SwitchIdle
    /\ VImportIdle
    /\ FederalStatesIdle
    /\ SetNprocsIdle
    /\ CleanupIdle
    /\ DownloadIdle
    /\ ri_local_data_dir \in RasterDirs
    /\ ri_aoi \in { << >>, AreaName }
    /\ native_res_flag \in BOOLEAN
    /\ band_dict \in BandDicts
    /\ all_raster \in Accumulators(band_dict)
    /\ ri_rm_rasters \in { << >>, << <<"k">> >> }
    /\ ri_maps = {}
    /\ ri_region = "caller"
    /\ ri_i = 0
    /\ ri_b = 0
    /\ ri_imported = << >>
    /\ ri_pc = "import"
    /\ ri_error = "none"
    /\ ri_return = "none"

\* lines 165-198: one pass of the loop up to the tests of r.import's stderr:
\* the region is set to the aoi (if given), the file is imported; a file
\* that does not overlap is skipped, any other message than the overwrite
\* warning is fatal
RiImport ==
    /\ RImportFrame
    /\ ri_pc = "import"
    /\ ri_i < Len(RasterFiles(ri_local_data_dir))
    /\ \E region_ok \in BOOLEAN :
          LET err == RasterFiles(ri_local_data_dir)[ri_i + 1].stderr
          IN IF ri_aoi # << >> /\ ~region_ok
             THEN /\ ri_pc' = "error"
                  /\ ri_error' = "CalledModuleError"
                  /\ UNCHANGED << ri_region, ri_maps, ri_i, ri_b, ri_imported >>
             ELSE /\ ri_region' = IF ri_aoi # << >> THEN "aoi" ELSE ri_region
                  /\ IF Contains(err, ErrM1)
                     THEN /\ ri_i' = ri_i + 1
                          /\ UNCHANGED << ri_maps, ri_b, ri_imported, ri_pc,
                                          ri_error >>
                     ELSE IF Contains(err, ErrM2) \/ err = << >>
                     THEN /\ ri_maps' = ri_maps \cup
                                { BandNameOld(RasterName(ri_i),
                                              BandItems(band_dict)[k]) :
                                    k \in 1..Len(BandItems(band_dict)) }
                          /\ ri_imported' = Append(ri_imported, ri_i)
                          /\ ri_b' = 1
                          /\ ri_pc' = "bands"
                          /\ UNCHANGED << ri_i, ri_error >>
                     ELSE /\ ri_pc' = "error"
                          /\ ri_error' = "fatal"
                          /\ UNCHANGED << ri_maps, ri_i, ri_b, ri_imported >>
    /\ UNCHANGED << ri_local_data_dir, ri_aoi, native_res_flag, all_raster,
                    ri_rm_rasters, band_dict, ri_return >>

\* lines 201-213: one band of the imported file: its old name goes to
\* rm_rasters, the band is resampled to a new map or renamed, its new name
\* goes to the accumulator (KeyError for a dict without that band)
RiBand ==
    /\ RImportFrame
    /\ ri_pc = "bands"
    /\ ri_b <= Len(BandItems(band_dict))
    /\ LET item == BandItems(band_dict)[ri_b]
           band_name_old == BandNameOld(RasterName(ri_i), item)
           band_name_new == BandNameNew(RasterName(ri_i), item)
       IN /\ ri_rm_rasters' = Append(ri_rm_rasters, band_name_old)
          /\ \E how \in {"resampled", "renamed", "failed"} :
                IF how = "failed" \/ (how = "resampled" /\ native_res_flag)
                THEN /\ ri_pc' = "error"
                     /\ ri_error' = "CalledModuleError"
                     /\ UNCHANGED << ri_maps, all_raster, ri_b >>
                ELSE /\ ri_maps' = IF how = "renamed"
                                   THEN (ri_maps \ {band_name_old})
                                            \cup {band_name_new}
                                   ELSE ri_maps \cup {band_name_new}
                     /\ IF all_raster.kind = "dict"
                           /\ item.band \notin DOMAIN all_raster.val
                        THEN /\ ri_pc' = "error"
                             /\ ri_error' = "KeyError"
                             /\ UNCHANGED << all_raster, ri_b >>
                        ELSE /\ all_raster' =
                                   Accumulate(all_raster, item.band, band_name_new)
                             /\ ri_b' = ri_b + 1
                             /\ UNCHANGED << ri_pc, ri_error >>
    /\ UNCHANGED << ri_local_data_dir, ri_aoi, native_res_flag, band_dict,
                    ri_region, ri_i, ri_imported, ri_return >>

\* line 201: the loop over the bands is over, the next file follows
RiBandsDone ==
    /\ RImportFrame
    /\ ri_pc = "bands"
    /\ ri_b > Len(BandItems(band_dict))
    /\ ri_i' = ri_i + 1
    /\ ri_pc' = "import"
    /\ UNCHANGED << ri_local_data_dir, ri_aoi, native_res_flag, all_raster,
                    ri_rm_rasters, band_dict, ri_maps, ri_region, ri_b,
                    ri_imported, ri_error, ri_return >>

\* lines 215-222: the check of the accumulator and the return
RiReturn ==
    /\ RImportFrame
    /\ ri_pc = "import"
    /\ ri_i = Len(RasterFiles(ri_local_data_dir))
    /\ ri_return' = ImportedLocalData(all_raster)
    /\ ri_pc' = "returned"
    /\ UNCHANGED << ri_local_data_dir, ri_aoi, native_res_flag, all_raster,
                    ri_rm_rasters, band_dict, ri_maps, ri_region, ri_i, ri_b,
                    ri_imported, ri_error >>

NextRImport ==
    \/ RiImport
    \/ RiBand
    \/ RiBandsDone
    \/ RiReturn

SpecRImport == InitRImport /\ [][NextRImport]_vars

(***************************************************************************)
(* get_federal_states (open_geodata_germany/federal_state.py)              *)
(*                                                                         *)
(* A text is a sequence of tokens: " " (white space), "," or a word, a run *)
(* of other characters that the function never takes apart.                *)
(***************************************************************************)
\* longest text of the arguments and of the file
MaxText == 3

\* FS_ABBREVIATION: names and abbreviations of the federal states
FS_ABBREVIATION ==
    [w \in {"BW", "BY", "BE", "BB", "HB", "HH", "HE", "MV", "NI", "NW", "RP",
            "SL", "SN", "ST", "SH", "TH"} |-> w]
    @@ ("Baden-Württemberg" :> "BW") @@ ("Bayern" :> "BY")
    @@ ("Berlin" :> "BE") @@ ("Brandenburg" :> "BB") @@ ("Bremen" :> "HB")
    @@ ("Hamburg" :> "HH") @@ ("Hessen" :> "HE")
    @@ ("Mecklenburg-Vorpommern" :> "MV") @@ ("Niedersachsen" :> "NI")
    @@ ("Nordrhein-Westfalen" :> "NW") @@ ("Rheinland-Pfalz" :> "RP")
    @@ ("Saarland" :> "SL") @@ ("Sachsen" :> "SN")
    @@ ("Sachsen-Anhalt" :> "ST") @@ ("Schleswig-Holstein" :> "SH")
    @@ ("Thüringen" :> "TH")

\* no file at the path of federal_state_file
NoFile == [exists |-> FALSE, text |-> << >>]

\* the tokens the texts of the model are made of
Tokens == {" ", ",", "BW", "Bayern", "bw"}

\* the texts of at most n tokens
Texts(n) == UNION { [1..k -> Tokens] : k \in 0..n }

RECURSIVE StripLeft(_)
StripLeft(s) ==
    IF s # << >> /\ Head(s) = " " THEN StripLeft(Tail(s)) ELSE s

RECURSIVE StripRight(_)
StripRight(s) ==
    IF s # << >> /\ s[Len(s)] = " "
    THEN StripRight(SubSeq(s, 1, Len(s) - 1))
    ELSE s

\* str.strip() without white space left
StripNone(s) == s

\* str.strip()
Strip(s) == StripRight(StripLeft(s))

RECURSIVE Split(_, _)
\* str.split(sep): the pieces between the separators, at least one piece
Split(s, sep) ==
    IF \E i \in 1..Len(s) : s[i] = sep
    THEN LET i == CHOOSE k \in 1..Len(s) :
                      /\ s[k] = sep
                      /\ \A m \in 1..(k - 1) : s[m] # sep
         IN  << SubSeq(s, 1, i - 1) >> \o Split(SubSeq(s, i + 1, Len(s)), sep)
    ELSE << s >>

\* fs in FS_ABBREVIATION, for an item of the split text
KnownState(item) == Len(item) = 1 /\ item[1] \in DOMAIN FS_ABBREVIATION

\* the items of fs_list_str as the loop sees them
StrippedItems(s) ==
    [k \in 1..Len(Split(s, ",")) |-> Strip(Split(s, ",")[k])]

InitFederalStates ==
    /\ DispatchIdle
    /\ GridIdle
    /\ PatchIdle
    /\ SwitchIdle
    /\ VImportIdle
    /\ RImportIdle
    /\ SetNprocsIdle
    /\ CleanupIdle
    /\ DownloadIdle
    /\ federal_state \in Texts(MaxText)
    /\ federal_state_file \in BOOLEAN
    /\ fs_file \in {NoFile} \union
           { [exists |-> TRUE, text |-> t] : t \in Texts(MaxText) }
    /\ federal_state_file = FALSE => fs_file = NoFile
    /\ fs_list_str = "unset"
    /\ fs_list = << >>
    /\ fs_pc = "input"
    /\ fs_error = "none"

\* the federal_state_file branch: the file is read, or the call ends with a
\* fatal error for a missing or empty file
FsReadFile ==
    /\ FederalStatesFrame
    /\ fs_pc = "input"
    /\ federal_state_file
    /\ IF ~fs_file.exists
       THEN /\ fs_pc' = "fatal"
            /\ fs_error' = "file does not exist"
            /\ UNCHANGED fs_list_str
       ELSE /\ fs_list_str' = Strip(fs_file.text)
            /\ IF Strip(fs_file.text) = << >>
               THEN fs_pc' = "fatal" /\ fs_error' = "file is empty string"
               ELSE fs_pc' = "loop" /\ UNCHANGED fs_error
    /\ UNCHANGED << federal_state, federal_state_file, fs_file, fs_list >>

\* the federal_state branch
FsUseString ==
    /\ FederalStatesFrame
    /\ fs_pc = "input"
    /\ ~federal_state_file
    /\ federal_state # << >>
    /\ fs_list_str' = Strip(federal_state)
    /\ fs_pc' = "loop"
    /\ UNCHANGED << federal_state, federal_state_file, fs_file, fs_list,
                    fs_error >>

\* neither parameter is given
FsNeither ==
    /\ FederalStatesFrame
    /\ fs_pc = "input"
    /\ ~federal_state_file
    /\ federal_state = << >>
    /\ fs_pc' = "fatal"
    /\ fs_error' = "neither given"
    /\ UNCHANGED << federal_state, federal_state_file, fs_file, fs_list_str,
                    fs_list >>

\* the loop over fs_list_str.split(",") and the return
FsConvert ==
    /\ FederalStatesFrame
    /\ fs_pc = "loop"
    /\ LET items == StrippedItems(fs_list_str)
       IN  IF \A k \in 1..Len(items) : KnownState(items[k])
           THEN /\ fs_list' = [k \in 1..Len(items) |->
                                  FS_ABBREVIATION[items[k][1]]]
                /\ fs_pc' = "returned"
                /\ UNCHANGED fs_error
           ELSE /\ fs_pc' = "fatal"
                /\ fs_error' = "non valid name"
                /\ UNCHANGED fs_list
    /\ UNCHANGED << federal_state, federal_state_file, fs_file, fs_list_str >>

NextFederalStates ==
    \/ FsReadFile
    \/ FsUseString
    \/ FsNeither
    \/ FsConvert

SpecFederalStates == InitFederalStates /\ [][NextFederalStates]_vars

(***************************************************************************)
(* set_nprocs (general.py)                                                 *)
(***************************************************************************)
\* largest number of CPUs of the machine
MaxCpu == 4

\* str(n) for an integer n
Str(n) == IF n < 0 THEN <<"-">> \o Dec(0 - n) ELSE Dec(n)

\* the value of a decimal digit
DigitVal(c) == CHOOSE d \in 0..9 : Dec(d) = << c >>

RECURSIVE ParseNat(_)
ParseNat(s) ==
    IF s = << >> THEN 0
    ELSE 10 * ParseNat(SubSeq(s, 1, Len(s) - 1)) + DigitVal(s[Len(s)])

\* int(s) for a str s holding a decimal integer
ParseInt(s) == IF Head(s) = "-" THEN 0 - ParseNat(Tail(s)) ELSE ParseNat(s)

\* the values of argument nprocs
NprocsArgs ==
    { [kind |-> "int", val |-> n] : n \in (0 - MaxCpu)..(MaxCpu + 8) }
    \union { [kind |-> "str", val |-> Str(n)] : n \in (0 - MaxCpu)..(MaxCpu + 8) }

\* line 29: a str argument is converted with int()
AsInt(arg) == IF arg.kind = "str" THEN ParseInt(arg.val) ELSE arg.val

\* line 31 without the fallback to one process
AutoNprocsNoFloor(cpus) == cpus - 1

\* line 31: the value for nprocs = -2
AutoNprocs(cpus) == IF cpus > 1 THEN cpus - 1 ELSE 1

InitSetNprocs ==
    /\ DispatchIdle
    /\ GridIdle
    /\ PatchIdle
    /\ SwitchIdle
    /\ VImportIdle
    /\ RImportIdle
    /\ FederalStatesIdle
    /\ CleanupIdle
    /\ DownloadIdle
    /\ sn_nprocs \in NprocsArgs
    /\ sn_cpu_count \in 1..MaxCpu
    /\ sn_warnings = 0
    /\ sn_return = "none"
    /\ sn_pc = "call"

\* nprocs == -2: one process less than there are CPUs, at least one
SnAuto ==
    /\ SetNprocsFrame
    /\ sn_pc = "call"
    /\ AsInt(sn_nprocs) = 0 - 2
    /\ sn_return' = [val |-> AutoNprocs(sn_cpu_count)]
    /\ sn_pc' = "returned"
    /\ UNCHANGED << sn_nprocs, sn_cpu_count, sn_warnings >>

\* any other value: warned about when above the CPU count, and returned
SnCheck ==
    /\ SetNprocsFrame
    /\ sn_pc = "call"
    /\ AsInt(sn_nprocs) # 0 - 2
    /\ sn_warnings' = IF AsInt(sn_nprocs) > sn_cpu_count
                      THEN sn_warnings + 1
                      ELSE sn_warnings
    /\ sn_return' = [val |-> AsInt(sn_nprocs)]
    /\ sn_pc' = "returned"
    /\ UNCHANGED << sn_nprocs, sn_cpu_count >>

NextSetNprocs ==
    \/ SnAuto
    \/ SnCheck

SpecSetNprocs == InitSetNprocs /\ [][NextSetNprocs]_vars

(***************************************************************************)
(* general_cleanup (cleanup.py)                                            *)
(*                                                                         *)
(* A run is a sequence of calls in one Python process.  The default values *)
(* of the parameters are list objects created once, when the function is   *)
(* defined; lines 47 and 58 extend rm_groups and rm_rasters in place, so   *)
(* the model keeps the two default lists that can change as state.  The    *)
(* other default lists are never changed and stay empty.                   *)
(***************************************************************************)
\* largest number of general_cleanup calls of a run
MaxCalls == 2

\* the artifacts of the mapset and of the file system
AllArtifacts ==
    { <<"raster", "r1">>, <<"raster", "r2">>, <<"raster", "MASK">>,
      <<"vector", "v1">>, <<"file", "f1">>, <<"dir", "d1">>,
      <<"group", "g1">>, <<"group", "g2">>,
      <<"windows", "reg1">>, <<"windows", "orig">>,
      <<"strds", "s1">>, <<"strds", "s2">>,
      <<"stvds", "t1">>, <<"stvds", "t2">> }

\* i.group -lg: the rasters of a group
GroupRasters(g) == IF g = "g1" THEN <<"r1">> ELSE << >>

\* the maps registered in a space-time dataset
RegisteredMaps(element, ds) ==
    IF element = "strds" /\ ds = "s1" THEN { <<"raster", "r2">> }
    ELSE IF element = "stvds" /\ ds = "t1" THEN { <<"vector", "v1">> }
    ELSE {}

\* a parameter left at its default
Omitted == [given |-> FALSE, val |-> << >>]

\* a list of the caller passed for a parameter
Given(list) == [given |-> TRUE, val |-> list]

\* general_cleanup(): every parameter at its default
NoArgs ==
    [rm_rasters |-> Omitted, rm_vectors |-> << >>, rm_files |-> << >>,
     rm_dirs |-> << >>, rm_groups |-> Omitted, rm_groups_w_rasters |-> << >>,
     rm_groups_wo_rasters |-> << >>, rm_regions |-> << >>, rm_strds |-> << >>,
     rm_strds_w_rasters |-> << >>, rm_stvds |-> << >>,
     rm_stvds_w_vectors |-> << >>, orig_region |-> << >>, rm_mask |-> FALSE]

\* calls that name groups and rasters
GroupCalls ==
    { [NoArgs EXCEPT !.rm_rasters = rr, !.rm_groups = rg,
                     !.rm_groups_w_rasters = gw, !.rm_groups_wo_rasters = go] :
        rr \in {Omitted, Given(<<"r2">>)}, rg \in {Omitted, Given(<<"g2">>)},
        gw \in {<< >>, <<"g1">>}, go \in {<< >>, <<"g2">>} }

\* calls that name one vector, file, directory or region, or the mask
SimpleCalls ==
    { [NoArgs EXCEPT !.rm_vectors = <<"v1">>],
      [NoArgs EXCEPT !.rm_files = <<"f1">>],
      [NoArgs EXCEPT !.rm_dirs = <<"d1">>],
      [NoArgs EXCEPT !.rm_regions = <<"reg1">>],
      [NoArgs EXCEPT !.orig_region = <<"orig">>],
      [NoArgs EXCEPT !.rm_mask = TRUE] }

\* calls that name space-time datasets
TemporalCalls ==
    { [NoArgs EXCEPT !.rm_strds = l] : l \in {<<"s1">>, <<"s1", "s2">>} }
    \union { [NoArgs EXCEPT !.rm_strds_w_rasters = l] :
                l \in {<<"s1">>, <<"s1", "s2">>} }
    \union { [NoArgs EXCEPT !.rm_stvds = l] :
                l \in {<<"t1">>, <<"t1", "t2">>} }
    \union { [NoArgs EXCEPT !.rm_stvds_w_vectors = l] :
                l \in {<<"t1">>, <<"t1", "t2">>} }

\* the calls of the model
CleanupCalls == GroupCalls \union SimpleCalls \union TemporalCalls

\* the loops "if find_file(...): g.remove / os.remove / rmtree"
RemoveAll(db, element, names) ==
    db \ { <<element, names[k]>> : k \in 1..Len(names) }

RECURSIVE GroupsWithRasters(_, _, _, _)
\* lines 51-59: rmg is the loop variable of the loop before, << >> when
\* that loop had nothing to run over (the name is then unbound)
GroupsWithRasters(list, db, rasters, rmg) ==
    IF list = << >>
    THEN [db |-> db, rasters |-> rasters, err |-> "none"]
    ELSE IF <<"group", Head(list)>> \in db
         THEN IF rmg = << >>
              THEN [db |-> db,
                    rasters |-> rasters \o GroupRasters(Head(list)),
                    err |-> "UnboundLocalError"]
              ELSE GroupsWithRasters(Tail(list),
                                     db \ { <<"group", rmg[1]>> },
                                     rasters \o GroupRasters(Head(list)),
                                     rmg)
         ELSE GroupsWithRasters(Tail(list), db, rasters, rmg)

\* lines 89-92: the names of the list that t.list showed
TemporalCheck(db, element, names) ==
    SelectSeq(names, LAMBDA n : <<element, n>> \in db)

\* t.remove: the datasets, and with flag d the maps registered in them
TRemove(db, element, names, with_maps) ==
    (db \ { <<element, names[k]>> : k \in 1..Len(names) })
       \ (IF with_maps
          THEN UNION { RegisteredMaps(element, names[k]) : k \in 1..Len(names) }
          ELSE {})

\* lines 93 and 106: the space-time raster datasets are removed when at
\* least one of those named exists
StrdsRemoved(db, listed, names, with_maps) ==
    IF Len(TemporalCheck(listed, "strds", names)) > 0
    THEN TRemove(db, "strds", TemporalCheck(listed, "strds", names), with_maps)
    ELSE db

\* lines 119 and 132: the space-time vector datasets
StvdsRemoved(db, listed, names, with_maps) ==
    IF Len(TemporalCheck(listed, "stvds", names)) > 1
    THEN TRemove(db, "stvds", TemporalCheck(listed, "stvds", names), with_maps)
    ELSE db

\* t.remove fails for a dataset that does not exist any more
TRemoveFails(db, listed, element, names, least) ==
    /\ Len(TemporalCheck(listed, element, names)) > least
    /\ \E k \in 1..Len(names) :
          <<element, names[k]>> \in listed /\ <<element, names[k]>> \notin db

\* lines 60-142, after the groups
CleanupRest(a, db, reg, rasters) ==
    LET db1 == RemoveAll(db, "raster", rasters)
        db2 == RemoveAll(db1, "vector", a.rm_vectors)
        db3 == RemoveAll(db2, "file", a.rm_files)
        db4 == RemoveAll(db3, "dir", a.rm_dirs)
        restore == a.orig_region # << >>
                      /\ <<"windows", a.orig_region[1]>> \in db4
        db5 == IF restore THEN RemoveAll(db4, "windows", a.orig_region)
               ELSE db4
        db6 == RemoveAll(db5, "windows", a.rm_regions)
        db7 == StrdsRemoved(db6, db6, a.rm_strds, FALSE)
        db8 == StrdsRemoved(db7, db6, a.rm_strds_w_rasters, TRUE)
        db9 == StvdsRemoved(db8, db6, a.rm_stvds, FALSE)
        db10 == StvdsRemoved(db9, db6, a.rm_stvds_w_vectors, TRUE)
    IN  IF TRemoveFails(db7, db6, "strds", a.rm_strds_w_rasters, 0)
        THEN [db |-> db7, err |-> "CalledModuleError",
              region |-> IF restore THEN a.orig_region[1] ELSE reg]
        ELSE IF TRemoveFails(db9, db6, "stvds", a.rm_stvds_w_vectors, 1)
        THEN [db |-> db9, err |-> "CalledModuleError",
              region |-> IF restore THEN a.orig_region[1] ELSE reg]
        ELSE [db |-> IF a.rm_mask THEN db10 \ { <<"raster", "MASK">> }
                     ELSE db10,
              err |-> "none",
              region |-> IF restore THEN a.orig_region[1] ELSE reg]

\* a whole call: the database, the region and the two lists it leaves
CleanupResult(a, db, reg, def_rasters, def_groups) ==
    LET rasters0 == IF a.rm_rasters.given THEN a.rm_rasters.val
                    ELSE def_rasters
        groups0 == IF a.rm_groups.given THEN a.rm_groups.val ELSE def_groups
        groups1 == groups0 \o a.rm_groups_wo_rasters
        db1 == RemoveAll(db, "group", groups1)
        rmg == IF groups1 = << >> THEN << >>
               ELSE << groups1[Len(groups1)] >>
        wr == GroupsWithRasters(a.rm_groups_w_rasters, db1, rasters0, rmg)
        rest == CleanupRest(a, wr.db, reg, wr.rasters)
    IN  IF wr.err # "none"
        THEN [db |-> wr.db, region |-> reg, rasters |-> wr.rasters,
              groups |-> groups1, err |-> wr.err]
        ELSE [db |-> rest.db, region |-> rest.region, rasters |-> wr.rasters,
              groups |-> groups1, err |-> rest.err]

InitCleanup ==
    /\ DispatchIdle
    /\ GridIdle
    /\ PatchIdle
    /\ SwitchIdle
    /\ VImportIdle
    /\ RImportIdle
    /\ FederalStatesIdle
    /\ SetNprocsIdle
    /\ DownloadIdle
    /\ gc_db \in { AllArtifacts,
                   AllArtifacts \ { <<"strds", "s2">>, <<"stvds", "t2">> } }
    /\ gc_region = "work"
    /\ gc_def_rasters = << >>
    /\ gc_def_groups = << >>
    /\ gc_args = << >>
    /\ gc_lists_after = << >>
    /\ gc_db_at_call = {}
    /\ gc_calls = 0
    /\ gc_error = "none"
    /\ gc_pc = "ready"

\* one call of general_cleanup, from line 44 to its return or exception
GcCall ==
    /\ CleanupFrame
    /\ gc_calls < MaxCalls
    /\ gc_pc = "ready"
    /\ \E a \in CleanupCalls :
          LET r == CleanupResult(a, gc_db, gc_region, gc_def_rasters,
                                 gc_def_groups)
          IN  /\ gc_args' = a
              /\ gc_db_at_call' = gc_db
              /\ gc_db' = r.db
              /\ gc_region' = r.region
              /\ gc_def_rasters' = IF a.rm_rasters.given THEN gc_def_rasters
                                   ELSE r.rasters
              /\ gc_def_groups' = IF a.rm_groups.given THEN gc_def_groups
                                  ELSE r.groups
              /\ gc_lists_after' =
                     [rm_rasters |-> IF a.rm_rasters.given THEN r.rasters
                                     ELSE << >>,
                      rm_groups |-> IF a.rm_groups.given THEN r.groups
                                    ELSE << >>]
              /\ gc_error' = r.err
    /\ gc_pc' = "ended"
    /\ gc_calls' = gc_calls + 1

\* between two calls the program goes on, and may produce its artifacts
\* again
GcCreate ==
    /\ CleanupFrame
    /\ gc_calls < MaxCalls
    /\ gc_error = "none"
    /\ gc_pc = "ended"
    /\ gc_db' \in {gc_db, AllArtifacts}
    /\ UNCHANGED << gc_region, gc_def_rasters, gc_def_groups, gc_args,
                    gc_lists_after, gc_db_at_call, gc_calls, gc_error >>
    /\ gc_pc' = "ready"

NextCleanup ==
    \/ GcCall
    \/ GcCreate

SpecCleanup == InitCleanup /\ [][NextCleanup]_vars

(***************************************************************************)
(* download_data_using_threadpool and url_response                         *)
(* (open_geodata_germany/download_data.py)                                 *)
(*                                                                         *)
(* The calling thread and the worker threads of the ThreadPool run         *)
(* concurrently; the working directory belongs to the process, so all of   *)
(* them see the one dl_cwd.  A task is "pending" in the pool's queue,      *)
(* "fetching" (requests.get), "writing" (the file is open), "done" or      *)
(* "failed".  The pool is neither closed nor joined by the function, so    *)
(* the workers go on after the calling thread has left it.                 *)
(***************************************************************************)
\* largest number of urls
MaxUrls == 3

\* the tasks a worker thread is busy with
Busy == { u \in 1..dl_urls : dl_task[u] \in {"fetching", "writing"} }

\* the ThreadPool of line 96 was created
PoolExists ==
    \/ dl_pc \in {"loop", "returned"}
    \/ dl_pc = "raised" /\ dl_error = "task exception"

InitDownload ==
    /\ DispatchIdle
    /\ GridIdle
    /\ PatchIdle
    /\ SwitchIdle
    /\ VImportIdle
    /\ RImportIdle
    /\ FederalStatesIdle
    /\ SetNprocsIdle
    /\ CleanupIdle
    /\ dl_urls \in 1..MaxUrls
    /\ dl_nprocs \in 1..MaxProcs
    /\ dl_dir_exists \in BOOLEAN
    /\ dl_cwd = "cur"
    /\ dl_task = [u \in 1..dl_urls |-> "pending"]
    /\ dl_written = [u \in 1..dl_urls |-> "none"]
    /\ dl_results = << >>
    /\ dl_printed = << >>
    /\ dl_pc = "call"
    /\ dl_error = "none"

\* lines 93-97: os.chdir(download_dir), the pool and imap_unordered; a
\* missing directory raises, and the finally clause changes back
DlChdir ==
    /\ DownloadFrame
    /\ dl_pc = "call"
    /\ IF dl_dir_exists
       THEN /\ dl_cwd' = "download"
            /\ dl_pc' = "loop"
            /\ UNCHANGED dl_error
       ELSE /\ dl_cwd' = "cur"
            /\ dl_pc' = "raised"
            /\ dl_error' = "FileNotFoundError"
    /\ UNCHANGED << dl_urls, dl_nprocs, dl_dir_exists, dl_task, dl_written,
                    dl_results, dl_printed >>

\* a free worker thread takes the next url from the queue (lines 74-75)
DlTake ==
    /\ DownloadFrame
    /\ PoolExists
    /\ Cardinality(Busy) < dl_nprocs
    /\ \E u \in 1..dl_urls :
          /\ dl_task[u] = "pending"
          /\ \A w \in 1..(u - 1) : dl_task[w] # "pending"
          /\ dl_task' = [dl_task EXCEPT ![u] = "fetching"]
    /\ UNCHANGED << dl_urls, dl_nprocs, dl_dir_exists, dl_cwd, dl_written,
                    dl_results, dl_printed, dl_pc, dl_error >>

\* requests.get raises: the task ends with the exception as its result
DlGetFails ==
    /\ DownloadFrame
    /\ \E u \in 1..dl_urls :
          /\ dl_task[u] = "fetching"
          /\ dl_task' = [dl_task EXCEPT ![u] = "failed"]
          /\ dl_results' = Append(dl_results, u)
    /\ UNCHANGED << dl_urls, dl_nprocs, dl_dir_exists, dl_cwd, dl_written,
                    dl_printed, dl_pc, dl_error >>

\* line 76: open(filename, "wb") with the relative file name, resolved in
\* the working directory of that moment
DlOpen ==
    /\ DownloadFrame
    /\ \E u \in 1..dl_urls :
          /\ dl_task[u] = "fetching"
          /\ dl_task' = [dl_task EXCEPT ![u] = "writing"]
          /\ dl_written' = [dl_written EXCEPT ![u] = dl_cwd]
    /\ UNCHANGED << dl_urls, dl_nprocs, dl_dir_exists, dl_cwd, dl_results,
                    dl_printed, dl_pc, dl_error >>

\* lines 77-79: the chunks are written and the url is the task's result,
\* or the transfer breaks and the exception is
DlWrite ==
    /\ DownloadFrame
    /\ \E u \in 1..dl_urls :
          /\ dl_task[u] = "writing"
          /\ \E ok \in BOOLEAN :
                dl_task' = [dl_task EXCEPT ![u] = IF ok THEN "done"
                                                  ELSE "failed"]
          /\ dl_results' = Append(dl_results, u)
    /\ UNCHANGED << dl_urls, dl_nprocs, dl_dir_exists, dl_cwd, dl_written,
                    dl_printed, dl_pc, dl_error >>

\* lines 99-100: the loop gets the next result and prints it
DlPrint ==
    /\ DownloadFrame
    /\ dl_pc = "loop"
    /\ dl_results # << >>
    /\ dl_task[Head(dl_results)] = "done"
    /\ dl_printed' = Append(dl_printed, Head(dl_results))
    /\ dl_results' = Tail(dl_results)
    /\ UNCHANGED << dl_urls, dl_nprocs, dl_dir_exists, dl_cwd, dl_task,
                    dl_written, dl_pc, dl_error >>

\* the next result is a task's exception: it is raised in the loop, and the
\* finally clause changes the directory back (lines 101-102)
DlRaise ==
    /\ DownloadFrame
    /\ dl_pc = "loop"
    /\ dl_results # << >>
    /\ dl_task[Head(dl_results)] = "failed"
    /\ dl_results' = Tail(dl_results)
    /\ dl_cwd' = "cur"
    /\ dl_pc' = "raised"
    /\ dl_error' = "task exception"
    /\ UNCHANGED << dl_urls, dl_nprocs, dl_dir_exists, dl_task, dl_written,
                    dl_printed >>

\* every result was printed: the finally clause, and the return
DlReturn ==
    /\ DownloadFrame
    /\ dl_pc = "loop"
    /\ Len(dl_printed) = dl_urls
    /\ dl_cwd' = "cur"
    /\ dl_pc' = "returned"
    /\ UNCHANGED << dl_urls, dl_nprocs, dl_dir_exists, dl_task, dl_written,
                    dl_results, dl_printed, dl_error >>

NextDownload ==
    \/ DlChdir
    \/ DlTake
    \/ DlGetFails
    \/ DlOpen
    \/ DlWrite
    \/ DlPrint
    \/ DlRaise
    \/ DlReturn

SpecDownload == InitDownload /\ [][NextDownload]_vars

(***************************************************************************)
(* Claims about run_module_parallel (checked under SpecDispatch)           *)
(***************************************************************************)
Started(j) == procs[j].st # "none"

Failed(j) == procs[j].st = "exited" /\ procs[j].rc # 0

AllEnded == \A j \in 1..NTiles : procs[j].st = "exited"

\* the workspace name of tile j (tile index j - 1), written out
ExpectedMapset(j) ==
    <<"t", "m", "p", "_">> \o Replace(module, ".", "_") \o <<"_">>
        \o Dec(j - 1) \o <<"_">> \o uid

\* the workspace name of tile j with the module name taken as it is
LiteralMapset(j) ==
    <<"t", "m", "p", "_">> \o module \o <<"_">> \o Dec(j - 1) \o <<"_">> \o uid

\* C1: in both modes a job that ended with a non-zero result makes the call
\* end with a fatal error naming that job and its error stream; the call
\* never returns normally after a job failed.
C1_FailedJobIsFatal ==
    /\ pc = "returned" => \A j \in 1..NTiles : ~Failed(j)
    /\ \A i \in DOMAIN fatals :
          fatals[i].kind = "JobFailure" =>
              /\ Failed(fatals[i].job)
              /\ fatals[i].bash = GetBash(fatals[i].job)
              /\ fatals[i].errmsg = procs[fatals[i].job].stderr

C4_ReturnsAllWorkspaces ==
    pc = "returned" =>
        /\ Len(result.names) = NTiles
        /\ \A j \in 1..NTiles :
              /\ procs[j].st = "exited"
              /\ result.names[j] = procs[j].kwargs["new_mapset"]

\* C5 as stated: the job of tile i runs with the base parameters plus
\* new_mapset = tmp_{operation}_{i}_{run_id} and area = tile i.
C5_JobParamsLiteralName ==
    \A j \in 1..NTiles :
        Started(j) =>
            /\ ProcKwargs(j)["new_mapset"] = LiteralMapset(j)
            /\ ProcKwargs(j)["area"] = tile_list[j]

\* C5 amended: the job of tile i runs with the base parameters plus
\* new_mapset = tmp_{operation with every "." replaced by "_"}_{i}_{run_id}
\* and area = tile i; no job runs with the new_mapset or area of another tile.
C5_JobParams ==
    \A j \in 1..NTiles :
        Started(j) =>
            /\ DOMAIN ProcKwargs(j) = (DOMAIN base_kwargs) \cup {"new_mapset", "area"}
            /\ \A k \in (DOMAIN base_kwargs) \ {"new_mapset", "area"} :
                  ProcKwargs(j)[k] = base_kwargs[k]
            /\ ProcKwargs(j)["new_mapset"] = ExpectedMapset(j)
            /\ ProcKwargs(j)["area"] = tile_list[j]
            /\ \A k \in 1..NTiles :
                  (Started(k) /\ k # j) =>
                      /\ ProcKwargs(k)["new_mapset"] # ProcKwargs(j)["new_mapset"]
                      /\ ProcKwargs(k)["area"] # ProcKwargs(j)["area"]

\* C5 witness: two jobs of a dotted module run at the same time, the shared
\* mapping already holding the values of the later one
C5_Witness ==
    /\ Contains(module, <<".">>)
    /\ \E j, k \in 1..NTiles :
          /\ j < k
          /\ procs[j].st = "running"
          /\ procs[k].st = "running"
          /\ module_kwargs = procs[k].kwargs
          /\ module_kwargs # procs[j].kwargs

\* C6: workspace names never collide: the names of one call are pairwise
\* distinct, every job has a workspace of its own, and a call of the same
\* operation with another run id yields none of this call's names.
C6_NamesNeverCollide ==
    /\ \A i, k \in 1..Len(mapset_names) :
          i # k => mapset_names[i] # mapset_names[k]
    /\ \A j, k \in 1..NTiles :
          (Started(j) /\ Started(k) /\ j # k) =>
              procs[j].kwargs["new_mapset"] # procs[k].kwargs["new_mapset"]
    /\ \A j \in 1..NTiles :
          Started(j) => procs[j].kwargs["new_mapset"] = mapset_names[j]
    /\ \A u \in Uids \ {uid} : \A n \in 0..(MaxTiles - 1) :
          NewMapsetName(module, n, u) \notin Range(mapset_names)

\* C6 witness: all tiles of a full tile list have their workspace name
C6_Witness ==
    /\ Len(mapset_names) = MaxTiles
    /\ \A j \in 1..NTiles : Started(j)

\* C7: a normal return leaves the current mapset of the caller as it was at
\* entry; a mapset that differs at the end of dispatch ends the call with the
\* fatal WorkspaceMismatch error instead.
C7_MapsetUnchangedOnReturn ==
    /\ pc = "returned" =>
          cur_mapset = StartMapset /\ start_cur_mapset = StartMapset
    /\ \A i \in DOMAIN fatals :
          fatals[i].kind = "WorkspaceMismatch" =>
              /\ pc = "fatal"
              /\ cur_mapset # StartMapset
              /\ result.names = << >>

\* C7 witness: a dispatch of at least two jobs has returned normally
C7_Witness ==
    /\ pc = "returned"
    /\ NTiles >= 2
    /\ AllEnded

\* C8 as stated: on a successful dispatch every finished job whose error
\* stream holds the warning marker gets a warning attributed to it.
C8_WarningsIssued ==
    pc = "returned" =>
        \A i \in 1..Len(queue.finished) :
            HasWarn(procs[queue.finished[i]].stderr) =>
                \E w \in 1..Len(warnings) : warnings[w] = queue.finished[i]

\* C8 amended: run_module_parallel issues no warning; on a successful
\* dispatch the non-empty lines of every finished job's error stream, the
\* ones holding the warning marker included, are emitted as plain messages
\* attributed to that job, and only after all jobs have finished.
C8_LogsNotWarnings ==
    /\ warnings = << >>
    /\ logs # << >> => \A j \in 1..NTiles : procs[j].st # "running"
    /\ pc \in {"verify", "returned"} =>
          /\ Len(logs) = Len(queue.finished)
          /\ \A i \in 1..Len(logs) :
                LET j == queue.finished[i]
                IN /\ logs[i].job = j
                   /\ logs[i].bash = [module |-> module, kwargs |-> procs[j].kwargs]
                   /\ logs[i].lines =
                         SelectSeq(procs[j].stderr, LAMBDA ln : ln # << >>)
                   /\ HasWarn(procs[j].stderr) =>
                         \E l \in 1..Len(logs[i].lines) :
                             Contains(logs[i].lines[l], WARN)

\* C8 witness: a dispatch returned normally, one of its finished jobs having
\* written the warning marker and another an empty line
C8_Witness ==
    /\ pc = "returned"
    /\ \E i \in 1..Len(queue.finished) : HasWarn(procs[queue.finished[i]].stderr)
    /\ \E i \in 1..Len(queue.finished) :
          \E l \in 1..Len(procs[queue.finished[i]].stderr) :
              procs[queue.finished[i]].stderr[l] = << >>

\* C9: when several jobs of a parallel dispatch fail, exactly one fatal error
\* is reported; it names the first job in the queue's enumeration order whose
\* result is non-zero, never a job that succeeded or has not finished.
C9_FirstFailingReported ==
    /\ Len(fatals) <= 1
    /\ pc = "fatal" => Len(fatals) = 1
    /\ \A i \in DOMAIN fatals :
          fatals[i].kind = "JobFailure" =>
              /\ Failed(fatals[i].job)
              /\ \E idx \in 1..queue.proc_count :
                    /\ queue.list[idx] = fatals[i].job
                    /\ \A e \in 1..(idx - 1) :
                          /\ procs[queue.list[e]].st = "exited"
                          /\ procs[queue.list[e]].rc = 0

\* C9 witness: two jobs of one parallel dispatch have failed and the fatal
\* error was reported
C9_Witness ==
    /\ parallel
    /\ pc = "fatal"
    /\ \E j, k \in 1..NTiles : j # k /\ Failed(j) /\ Failed(k)

\* the jobs that are running
Running == {j \in 1..NTiles : procs[j].st = "running"}

\* C18: with parallel=False the jobs run strictly one after another in tile
\* order on the calling thread: the job of tile i+1 starts only after the job
\* of tile i has ended, at most one job runs at any time, and no job is put
\* on the worker queue.
C18_SequentialOneAtATime ==
    ~parallel =>
        /\ Cardinality(Running) <= 1
        /\ \A j \in 1..NTiles :
              Started(j) => \A k \in 1..(j - 1) : procs[k].st = "exited"
        /\ \A j \in Running : pc = "run_command" /\ j = num + 1
        /\ queue.proc_count = 0
        /\ \A i \in DOMAIN queue.list : queue.list[i] = 0
        /\ queue.finished = << >>

\* C18 witness: in a sequential run the job of the last of several tiles runs
\* after the jobs of the earlier tiles have ended
C18_Witness ==
    /\ ~parallel
    /\ NTiles = MaxTiles
    /\ procs[NTiles].st = "running"
    /\ \A k \in 1..(NTiles - 1) : procs[k].st = "exited"

\* the outcome of the call that the results of its jobs stand for, whatever
\* the mode: a fatal job failure if a job failed, otherwise the names of the
\* workspaces of all tiles
OutcomeForJobs ==
    IF \E j \in 1..NTiles : Failed(j)
    THEN [kind |-> "fatal", names |-> << >>]
    ELSE [kind |-> "returned", names |-> [j \in 1..NTiles |-> ExpectedMapset(j)]]

\* C19: for the same operation, parameters, tile list and run id a run with
\* parallel=False and a run with parallel=True execute the same jobs, create
\* the same workspaces and end with the same outcome: the outcome of a call
\* depends on the results of its jobs only, not on the mode (a returned list
\* holds the workspace of every tile, all of whose jobs ran and succeeded; a
\* failed job makes the call end with a fatal job failure in both modes).
C19_ModesAgree ==
    /\ pc = "returned" =>
          /\ OutcomeForJobs.kind = "returned"
          /\ result.names = OutcomeForJobs.names
          /\ \A j \in 1..NTiles : procs[j].st = "exited"
    /\ (pc \in {"returned", "fatal"} /\ OutcomeForJobs.kind = "fatal") =>
          /\ pc = "fatal"
          /\ \E i \in DOMAIN fatals : fatals[i].kind = "JobFailure"
    /\ \A j \in 1..NTiles :
          Started(j) => procs[j].kwargs["new_mapset"] = ExpectedMapset(j)

\* C29: run_module_parallel leaves the mapping passed as module_kwargs as it
\* was: after the call it holds the same keys and values as before, no
\* new_mapset or area entry of a tile added.
C29_KwargsUnchanged ==
    pc \in {"returned", "fatal"} => module_kwargs = base_kwargs

\* the part of C29 for a call without tiles
C29_KwargsUnchangedWithoutTiles ==
    (pc \in {"returned", "fatal"} /\ NTiles = 0) => module_kwargs = base_kwargs

(***************************************************************************)
(* Claims about create_grid (checked under SpecGrid)                       *)
(***************************************************************************)
\* the working region: the region at the call, or the bounding box of area
WorkingRegion ==
    IF area = << >> \/ vectors[area] = {} THEN region_at_call
    ELSE RegionOfVector(region_at_call, vectors[area])

\* the unit squares covered by the returned tile polygons
TileCells(name) == MapCells(vectors[name])

TilesUnion == UNION {TileCells(g_return[i]) : i \in 1..Len(g_return)}

TilesDisjoint ==
    \A i, k \in 1..Len(g_return) :
        i # k => TileCells(g_return[i]) \cap TileCells(g_return[k]) = {}

\* the largest multiple of t that is <= x, the smallest that is >= x
MultipleBelow(x, t) == CHOOSE m \in 0..x : m % t = 0 /\ x < m + t

MultipleAbove(x, t) == CHOOSE m \in x..(x + t) : m % t = 0 /\ m < x + t

\* the extent the grid is laid over: the working region itself when it fits
\* into one tile, otherwise the working region widened to multiples of t
GridExtent ==
    LET r == WorkingRegion
        t == tile_size
    IN IF r.n - r.s <= t /\ r.e - r.w <= t
       THEN Rect(r.w, r.e, r.s, r.n)
       ELSE Rect(MultipleBelow(r.w, t), MultipleAbove(r.e, t),
                 MultipleBelow(r.s, t), MultipleAbove(r.n, t))

\* C2: after create_grid has ended, by a return or by an error at any step,
\* the current region is the region that was current at the call.
C2_RegionRestored ==
    g_pc \in {"done", "error"} => region = region_at_call

\* C10 as stated: the union of the extracted tiles equals the extent of the
\* working region (with an area: covers the area), no part of a tile lies
\* outside the working region, and different tiles do not share area.
C10_TilesCoverRegion ==
    g_pc = "done" =>
        /\ IF area = << >>
           THEN TilesUnion = RegionCells(WorkingRegion)
           ELSE MapCells(vectors[area]) \subseteq TilesUnion
        /\ TilesUnion \subseteq RegionCells(WorkingRegion)
        /\ TilesDisjoint

\* C10 amended: the union of the extracted tiles equals the working region
\* widened outwards to multiples of tile_size (the working region itself when
\* both extents are at most tile_size), restricted to the tiles overlapping
\* the area when an area is given; it contains the working region (the area),
\* a tile reaches outside the working region by less than tile_size, and
\* different tiles do not share area.
C10_TilesCoverAlignedRegion ==
    g_pc = "done" =>
        /\ TilesUnion \subseteq GridExtent
        /\ RegionCells(WorkingRegion) \subseteq GridExtent
        /\ IF area = << >>
           THEN TilesUnion = GridExtent
           ELSE /\ MapCells(vectors[area]) \subseteq TilesUnion
                /\ \A i \in 1..Len(g_return) :
                      TileCells(g_return[i]) \cap MapCells(vectors[area]) # {}
                /\ \A c \in GridExtent \ TilesUnion :
                      \A a \in MapCells(vectors[area]) :
                          \/ c[1] \div tile_size # a[1] \div tile_size
                          \/ c[2] \div tile_size # a[2] \div tile_size
        /\ \A c \in TilesUnion :
              /\ c[1] > WorkingRegion.w - tile_size
              /\ c[1] < WorkingRegion.e - 1 + tile_size
              /\ c[2] > WorkingRegion.s - tile_size
              /\ c[2] < WorkingRegion.n - 1 + tile_size
        /\ \A i \in 1..Len(g_return) :
              /\ TileCells(g_return[i]) # {}
              /\ \A c, d \in TileCells(g_return[i]) :
                    /\ Abs(c[1] - d[1]) < tile_size
                    /\ Abs(c[2] - d[2]) < tile_size
        /\ TilesDisjoint

\* C10 witness: a grid of several tiles was returned for a region that is no
\* multiple of tile_size, so that tiles reach outside the region
C10_Witness ==
    /\ g_pc = "done"
    /\ area = << >>
    /\ Len(g_return) >= 2
    /\ TilesUnion # RegionCells(WorkingRegion)
    /\ RegionCells(WorkingRegion) \subseteq TilesUnion

\* both extents of the working region are at most tile_size
FitsOneTile ==
    /\ WorkingRegion.n - WorkingRegion.s <= tile_size
    /\ WorkingRegion.e - WorkingRegion.w <= tile_size

\* C11: if both extents of the working region are at most tile_size
\* (equality included) create_grid makes exactly one tile, the whole working
\* region, and never runs the grid subdivision; if an extent exceeds tile_size
\* it runs the subdivision (boxes of tile_size x tile_size).
C11_SingleTileIffFits ==
    /\ g_pc \in {"v_in_region", "v_db_addtable"} => FitsOneTile
    /\ g_pc \in {"g_region_res", "v_mkgrid"} => ~FitsOneTile
    /\ g_pc = "reset_region" =>
          IF FitsOneTile
          THEN /\ Cardinality(vectors[grid]) = 1
               /\ MapCells(vectors[grid]) = RegionCells(WorkingRegion)
          ELSE /\ MapCells(vectors[grid]) = GridExtent
               /\ \A f \in vectors[grid] :
                     Cardinality(f.cells) = tile_size * tile_size
    /\ (g_pc = "done" /\ FitsOneTile) =>
          /\ Len(g_return) = 1
          /\ TileCells(g_return[1]) = RegionCells(WorkingRegion)
    /\ (g_pc = "done" /\ ~FitsOneTile /\ area = << >>) =>
          Len(g_return) * tile_size * tile_size = Cardinality(GridExtent)

\* C11 witness: a region whose two extents both equal tile_size (more than
\* one map unit) came back as one tile
C11_Witness ==
    /\ g_pc = "done"
    /\ tile_size > 1
    /\ WorkingRegion.n - WorkingRegion.s = tile_size
    /\ WorkingRegion.e - WorkingRegion.w = tile_size
    /\ Len(g_return) = 1

\* C12: create_grid returns a pair: the sequence of the created tile names
\* and the number of created tiles, equal to the length of the sequence.
C12_ReturnsPair ==
    g_pc = "done" =>
        /\ Len(g_return) = 2
        /\ g_return = <<tiles_list, Len(tiles_list)>>

\* the grid box f shares area with the map given as area
OverlapsArea(f) == f.cells \cap MapCells(vectors[area]) # {}

\* C13: with an area that no grid box overlaps create_grid ends with the
\* fatal RegionMismatch error and extracts no tile; with at least one
\* overlapping box it goes on without RegionMismatch, and a box that only
\* partly overlaps the area is kept whole.
C13_RegionMismatchIffNoOverlap ==
    /\ g_error = "RegionMismatch" =>
          /\ g_pc = "error"
          /\ area # << >>
          /\ \A f \in vectors[grid] : ~OverlapsArea(f)
          /\ tiles_list = << >>
          /\ g_return = << >>
          /\ DOMAIN vectors \subseteq {area, grid}
    /\ (area # << >> /\ g_pc \in {"v_db_select", "v_extract"}) =>
          /\ \E f \in vectors[grid] : OverlapsArea(f)
          /\ vectors[grid_name] = { f \in vectors[grid] : OverlapsArea(f) }
    /\ (area # << >> /\ g_pc = "done") =>
          /\ Len(g_return) >= 1
          /\ \A i \in 1..Len(g_return) :
                /\ TileCells(g_return[i]) \cap MapCells(vectors[area]) # {}
                /\ Cardinality(TileCells(g_return[i])) =
                      IF FitsOneTile
                      THEN Cardinality(RegionCells(WorkingRegion))
                      ELSE tile_size * tile_size

\* C13 witness: the clip of the grid by an area came back empty and
\* create_grid ended with RegionMismatch
C13_Witness ==
    /\ g_error = "RegionMismatch"
    /\ area # << >>
    /\ FindFile(vectors, grid)
    /\ ~FindFile(vectors, grid_name)

\* C14: the returned sequence holds exactly one name {prefix}_{cat} for each
\* surviving tile category, in the order in which the categories were
\* enumerated from the grid (no duplicates, no omissions), and the polygon of
\* each returned name holds that tile and only that tile.
C14_OneNamePerCategory ==
    /\ g_pc = "v_extract" =>
          /\ Range(tiles_num_list) = {f.cat : f \in vectors[grid_name]}
          /\ Len(tiles_num_list) = Cardinality(vectors[grid_name])
          /\ \A i, k \in 1..Len(tiles_num_list) :
                i < k => tiles_num_list[i] < tiles_num_list[k]
          /\ \A i \in 1..Len(tiles_list) :
                vectors[tiles_list[i]] =
                    { f \in vectors[grid_name] : f.cat = tiles_num_list[i] }
    /\ g_pc = "done" =>
          /\ Len(g_return) = Len(tiles_num_list)
          /\ \A i \in 1..Len(g_return) :
                /\ g_return[i] = grid_prefix \o <<"_">> \o Dec(tiles_num_list[i])
                /\ FindFile(vectors, g_return[i])
                /\ Cardinality(vectors[g_return[i]]) = 1
                /\ \A f \in vectors[g_return[i]] : f.cat = tiles_num_list[i]
          /\ \A i, k \in 1..Len(g_return) : i # k => g_return[i] # g_return[k]

\* C14 witness: tiles were returned for categories that are not consecutive
\* (the boxes in between do not overlap the area)
C14_Witness ==
    /\ g_pc = "done"
    /\ Len(g_return) >= 2
    /\ tiles_num_list[2] > tiles_num_list[1] + 1

\* C15: after a normal return of create_grid neither temporary grid vector
\* (tmp_grid_{sid}, tmp_grid_area_{sid}) nor the region snapshot
\* grid_region_{sid} exists; the only new vector maps are the tile polygons.
C15_IntermediatesRemoved ==
    g_pc = "done" =>
        /\ ~FindFile(vectors, <<"t", "m", "p", "_", "g", "r", "i", "d", "_">> \o sid)
        /\ ~FindFile(vectors, <<"t", "m", "p", "_", "g", "r", "i", "d", "_",
                                 "a", "r", "e", "a", "_">> \o sid)
        /\ ~FindFile(saved_regions,
                     <<"g", "r", "i", "d", "_", "r", "e", "g", "i", "o", "n", "_">>
                         \o sid)
        /\ saved_regions = << >>
        /\ DOMAIN vectors =
              (IF area = << >> THEN {} ELSE {area}) \cup Range(g_return)

\* C15 witness: create_grid returned several tiles for an area, so that both
\* temporary grid vectors had been written
C15_Witness ==
    /\ g_pc = "done"
    /\ area # << >>
    /\ Len(g_return) >= 2
    /\ grid_name # grid

\* C30: when create_grid ends with a fatal error (RegionMismatch or a failing
\* spatial operation) no temporary artifact of the call is left: neither
\* tmp_grid_{sid}, nor tmp_grid_area_{sid}, nor the region snapshot
\* grid_region_{sid} exists afterwards.
C30_NothingLeftOnError ==
    g_pc = "error" =>
        /\ ~FindFile(vectors, <<"t", "m", "p", "_", "g", "r", "i", "d", "_">> \o sid)
        /\ ~FindFile(vectors, <<"t", "m", "p", "_", "g", "r", "i", "d", "_",
                                 "a", "r", "e", "a", "_">> \o sid)
        /\ ~FindFile(saved_regions,
                     <<"g", "r", "i", "d", "_", "r", "e", "g", "i", "o", "n", "_">>
                         \o sid)

\* the part of C30 about the region snapshot after RegionMismatch
C30_SnapshotRemovedOnRegionMismatch ==
    g_error = "RegionMismatch" =>
        ~FindFile(saved_regions,
                  <<"g", "r", "i", "d", "_", "r", "e", "g", "i", "o", "n", "_">>
                      \o sid)

(***************************************************************************)
(* Claims about the patching functions (checked under SpecPatch)           *)
(***************************************************************************)
\* the number i of the workspace named w
WorkspaceIndex(w) == CHOOSE i \in 1..MaxTiles : PatchWorkspace(i) = w

\* C16: called with exactly one workspace w, the patching functions copy
\* output@w into the caller's mapset under the name output, overwriting an
\* existing output, and run no patch; output is then identical to output@w.
C16_SingleWorkspaceIsCopied ==
    Len(mapsets) = 1 =>
        /\ \A c \in 1..Len(commands) : commands[c].tool = "g.copy"
        /\ p_pc = "returned" =>
              /\ Len(commands) = 1
              /\ commands[1].element = p_kind
              /\ commands[1].arg =
                    output \o <<"@">> \o mapsets[1] \o <<",">> \o output
              /\ commands[1].overwrite
              /\ maps[output] = maps[output \o <<"@">> \o mapsets[1]]
              /\ maps[output] =
                    SubsetContent(p_kind, WorkspaceIndex(mapsets[1]))

\* C16 witness: the one workspace's output was copied over an older output
C16_Witness ==
    /\ Len(mapsets) = 1
    /\ p_pc = "returned"
    /\ Len(commands) = 1
    /\ maps[output] # OldContent(p_kind)
    /\ \E w \in DOMAIN maps : w # output /\ maps[w] # maps[output]

\* C17: called with more than one workspace, the patching functions run
\* exactly one patch, over the references output@w, one per workspace and in
\* the order of the workspace list, writing output with overwrite; they run
\* no copy.
C17_PatchInListOrder ==
    Len(mapsets) > 1 =>
        /\ Len(commands) <= 1
        /\ \A c \in 1..Len(commands) :
              /\ commands[c].tool =
                    (IF p_kind = "vector" THEN "v.patch" ELSE "r.patch")
              /\ Len(commands[c].input) = Len(mapsets)
              /\ \A i \in 1..Len(mapsets) :
                    commands[c].input[i] = output \o <<"@">> \o mapsets[i]
              /\ commands[c].output = output
              /\ commands[c].overwrite
        /\ p_pc \in {"returned", "error"} => Len(commands) = 1
        /\ p_pc = "returned" =>
              IF p_kind = "vector"
              THEN /\ Len(maps[output]) = 2 * Len(mapsets)
                   /\ \A i \in 1..Len(mapsets) :
                         maps[output][(2 * i) - 1] = WorkspaceIndex(mapsets[i])
              ELSE /\ maps[output][0] = WorkspaceIndex(mapsets[1])
                   /\ \A i \in 1..Len(mapsets) :
                         maps[output][WorkspaceIndex(mapsets[i])] =
                             WorkspaceIndex(mapsets[i])

\* C17 witness: a patch over a workspace list that is not in ascending order
\* has written output
C17_Witness ==
    /\ Len(mapsets) = MaxTiles
    /\ p_pc = "returned"
    /\ WorkspaceIndex(mapsets[1]) > WorkspaceIndex(mapsets[2])
    /\ Len(commands) = 1

(***************************************************************************)
(* Claims about switch_to_new_mapset (checked under SpecSwitch)            *)
(***************************************************************************)
\* the mapset the session names
CurrentMapset == files[environ_gisrc].MAPSET

\* C20: when switch_to_new_mapset returns, the current mapset is new_mapset,
\* GISRC points to a per-process copy of the GISRC file that was active at
\* entry (that file itself is left as it was), and the returned triple is
\* (GISRC path at entry, new GISRC path, mapset at entry); if the current
\* mapset after the switch is not new_mapset the call ends fatally and does
\* not return.
C20_SwitchedOnReturn ==
    /\ s_pc = "returned" =>
          /\ CurrentMapset = s_new_mapset
          /\ environ_gisrc = gisrc_at_call \o <<"_">> \o Dec(pid)
          /\ environ_gisrc # gisrc_at_call
          /\ files[environ_gisrc] =
                [files_at_call[gisrc_at_call] EXCEPT !.MAPSET = s_new_mapset]
          /\ files[gisrc_at_call] = files_at_call[gisrc_at_call]
          /\ s_return = <<gisrc_at_call, environ_gisrc,
                          files_at_call[gisrc_at_call].MAPSET>>
          /\ s_error = "none"
    /\ s_error = "fatal" =>
          /\ s_pc = "error"
          /\ CurrentMapset # s_new_mapset
          /\ s_return = << >>
    /\ (s_pc \in {"returned", "error"} /\ s_error \in {"none", "fatal"}) =>
          (s_pc = "returned" <=> CurrentMapset = s_new_mapset)

\* C20 witness: the call returned after switching away from the mapset at
\* entry, a stale per-process GISRC file having been in the way
C20_Witness ==
    /\ s_pc = "returned"
    /\ s_return[3] # s_new_mapset
    /\ FindFile(files_at_call, environ_gisrc)
    /\ files_at_call[environ_gisrc] # files[environ_gisrc]

(***************************************************************************)
(* Claims about import_local_vector_data (checked under SpecVImport)       *)
(***************************************************************************)
\* C21: import_local_vector_data returns a boolean for every local data
\* directory (it raises only when a GRASS command fails): True when the
\* patched output holds at least one feature, otherwise False; for a
\* directory without any GPKG or SHP file it returns False.
C21_ReturnsBoolean ==
    /\ vi_pc = "error" => vi_error = "CalledModuleError"
    /\ vi_pc = "returned" =>
          /\ vi_return \in BOOLEAN
          /\ vi_return <=>
                (vi_maps[vi_output].centroids + vi_maps[vi_output].points > 0)

(***************************************************************************)
(* Claims about import_local_raster_data (checked under SpecRImport)       *)
(***************************************************************************)
\* the band name of file i for an item of band_dict, after (new) or before
\* the renaming
BandNameOf(i, item, renamed) ==
    <<"b", "_">> \o Dec(i) \o
        (IF item.band_num = << >> THEN << >>
         ELSE <<".">> \o (IF renamed THEN item.band ELSE item.band_num))

RECURSIVE NamesOfImported(_, _, _)
\* the band names of the imported files, file by file and band by band
NamesOfImported(imported, items, renamed) ==
    IF imported = << >> THEN << >>
    ELSE [k \in 1..Len(items) |-> BandNameOf(Head(imported), items[k], renamed)]
             \o NamesOfImported(Tail(imported), items, renamed)

\* the accumulator is a list, or a dict keyed by the bands of band_dict
AccumulatorFitsBands ==
    \/ all_raster.kind = "list"
    \/ DOMAIN all_raster.val = Bands(band_dict)

SourceText == IF federal_state_file THEN fs_file.text ELSE federal_state

IsWord(t) == t # " " /\ t # ","

\* the words of a text, white space and commas left out
WordsOf(s) == SelectSeq(s, IsWord)

\* the number of the comma-separated item position p of s lies in, from 0
ItemOf(s, p) == Cardinality({ q \in 1..(p - 1) : s[q] = "," })

\* every comma-separated item of s is a single known federal state
AllItemsKnown(s) ==
    /\ \A k \in 0..ItemOf(s, Len(s) + 1) :
          Cardinality({ p \in 1..Len(s) : IsWord(s[p]) /\ ItemOf(s, p) = k })
              = 1
    /\ \A p \in 1..Len(s) : IsWord(s[p]) => s[p] \in DOMAIN FS_ABBREVIATION

\* C23: get_federal_states returns the abbreviations of the comma-separated
\* items of its input, one per item in input order, names and abbreviations
\* both giving the abbreviation; the file takes precedence over the string;
\* the call ends with a fatal error when the file is given but missing or
\* empty, when neither parameter is given, or when an item is not a known
\* federal state.
C23_AbbreviationsOrFatal ==
    /\ fs_pc \in {"returned", "fatal"} =>
          (fs_pc = "fatal") <=>
              \/ federal_state_file /\ ~fs_file.exists
              \/ ~federal_state_file /\ federal_state = << >>
              \/ ~AllItemsKnown(SourceText)
    /\ fs_pc = "returned" =>
          fs_list = [k \in 1..Len(WordsOf(SourceText)) |->
                        FS_ABBREVIATION[WordsOf(SourceText)[k]]]
    /\ (fs_pc = "fatal" /\ federal_state_file /\ fs_file.exists
            /\ \A p \in 1..Len(fs_file.text) : fs_file.text[p] = " ")
          => fs_error = "file is empty string"

\* C23 witness: a call given both a file and a different string returned the
\* abbreviations of the file's two items, a name and an abbreviation
C23_Witness ==
    /\ fs_pc = "returned"
    /\ federal_state_file
    /\ federal_state # << >>
    /\ federal_state # fs_file.text
    /\ fs_file.text = <<"Bayern", ",", "BW">>
    /\ fs_list = <<"BY", "BW">>


(***************************************************************************)
(* Claims about set_nprocs (checked under SpecSetNprocs)                   *)
(***************************************************************************)
\* the integer the argument stands for, from the range the arguments are
\* drawn from
GivenNprocs ==
    CHOOSE n \in (0 - MaxCpu)..(MaxCpu + 8) :
        \/ sn_nprocs = [kind |-> "int", val |-> n]
        \/ sn_nprocs = [kind |-> "str", val |-> Str(n)]

\* C24: set_nprocs returns max(1, cpu_count - 1) for the input -2 and every
\* other input unchanged as an integer, a value above the CPU count only
\* being warned about; the result is at least 1 whenever the input is -2 or
\* at least 1.
C24_NprocsReturned ==
    sn_pc = "returned" =>
        /\ sn_return.val \in Int
        /\ GivenNprocs = 0 - 2 =>
              /\ sn_return.val >= sn_cpu_count - 1
              /\ sn_return.val >= 1
              /\ sn_return.val \in {1, sn_cpu_count - 1}
        /\ GivenNprocs # 0 - 2 => sn_return.val = GivenNprocs
        /\ sn_warnings = IF GivenNprocs # 0 - 2 /\ GivenNprocs > sn_cpu_count
                         THEN 1 ELSE 0
        /\ (GivenNprocs = 0 - 2 \/ GivenNprocs >= 1) => sn_return.val >= 1

\* C24 witness: -2 given as a str on a machine with one CPU gave 1
C24_Witness ==
    /\ sn_pc = "returned"
    /\ sn_nprocs = [kind |-> "str", val |-> <<"-", "2">>]
    /\ sn_cpu_count = 1
    /\ sn_return.val = 1

\* C24 second witness: a two-digit str above the CPU count came back unclamped
C24_WitnessUnclamped ==
    /\ sn_pc = "returned"
    /\ sn_nprocs = [kind |-> "str", val |-> <<"1", "2">>]
    /\ sn_return.val = 12
    /\ sn_warnings = 1


(***************************************************************************)
(* Claims about general_cleanup (checked under SpecCleanup)                *)
(***************************************************************************)
\* the names of a list
NamesIn(list) == { list[k] : k \in 1..Len(list) }

\* the last call returned
CleanupReturned == gc_pc = "ended" /\ gc_error = "none"

\* the datasets of an element named in the lists, that existed at the call,
\* are gone
DatasetsGone(element, plain, with_maps) ==
    \A n \in NamesIn(plain) \union NamesIn(with_maps) :
        <<element, n>> \in gc_db_at_call => <<element, n>> \notin gc_db

\* C25: general_cleanup removes every space-time vector dataset named in
\* rm_stvds or rm_stvds_w_vectors that exists in the current mapset, for any
\* number of such names including exactly one, as it removes every existing
\* space-time raster dataset named in rm_strds or rm_strds_w_rasters.
C25_StvdsRemovedLikeStrds ==
    CleanupReturned =>
        /\ DatasetsGone("strds", gc_args.rm_strds, gc_args.rm_strds_w_rasters)
        /\ DatasetsGone("stvds", gc_args.rm_stvds, gc_args.rm_stvds_w_vectors)

\* the part of C25 about the space-time raster datasets
C25_StrdsRemoved ==
    CleanupReturned =>
        DatasetsGone("strds", gc_args.rm_strds, gc_args.rm_strds_w_rasters)

\* C26: for every group named in rm_groups_w_rasters that exists,
\* general_cleanup removes the group itself and every raster that belongs
\* to it, whatever rm_groups holds, an empty rm_groups included.
C26_GroupAndRastersRemoved ==
    gc_pc = "ended" =>
        \A g \in NamesIn(gc_args.rm_groups_w_rasters) :
            <<"group", g>> \in gc_db_at_call =>
                /\ gc_error = "none"
                /\ <<"group", g>> \notin gc_db
                /\ \A r \in NamesIn(GroupRasters(g)) :
                      <<"raster", r>> \notin gc_db

\* the artifacts the arguments of a call name, with the rasters of the
\* groups and the maps of the datasets that are to go with them
NamedBy(a) ==
    { <<"raster", n>> : n \in NamesIn(a.rm_rasters.val) }
    \union { <<"vector", n>> : n \in NamesIn(a.rm_vectors) }
    \union { <<"file", n>> : n \in NamesIn(a.rm_files) }
    \union { <<"dir", n>> : n \in NamesIn(a.rm_dirs) }
    \union { <<"group", n>> : n \in NamesIn(a.rm_groups.val)
                                    \union NamesIn(a.rm_groups_w_rasters)
                                    \union NamesIn(a.rm_groups_wo_rasters) }
    \union { <<"raster", n>> :
                n \in UNION { NamesIn(GroupRasters(g)) :
                                 g \in NamesIn(a.rm_groups_w_rasters) } }
    \union { <<"windows", n>> : n \in NamesIn(a.rm_regions)
                                      \union NamesIn(a.orig_region) }
    \union { <<"strds", n>> : n \in NamesIn(a.rm_strds)
                                    \union NamesIn(a.rm_strds_w_rasters) }
    \union { <<"stvds", n>> : n \in NamesIn(a.rm_stvds)
                                    \union NamesIn(a.rm_stvds_w_vectors) }
    \union UNION { RegisteredMaps("strds", n) :
                      n \in NamesIn(a.rm_strds_w_rasters) }
    \union UNION { RegisteredMaps("stvds", n) :
                      n \in NamesIn(a.rm_stvds_w_vectors) }
    \union (IF a.rm_mask THEN { <<"raster", "MASK">> } ELSE {})

\* C27: in any sequence of general_cleanup calls each call deletes only
\* artifacts named in its own arguments (or belonging to a group named in
\* them), and the list arguments passed by the caller are not modified.
C27_OnlyOwnArguments ==
    gc_pc = "ended" =>
        /\ (gc_db_at_call \ gc_db) \subseteq NamedBy(gc_args)
        /\ gc_args.rm_rasters.given =>
              gc_lists_after.rm_rasters = gc_args.rm_rasters.val
        /\ gc_args.rm_groups.given =>
              gc_lists_after.rm_groups = gc_args.rm_groups.val

\* the part of C27 about what is deleted
C27_DeletesOnlyNamed ==
    gc_pc = "ended" => (gc_db_at_call \ gc_db) \subseteq NamedBy(gc_args)

\* the first call deletes only what it names
C27_FirstCallDeletesOnlyNamed ==
    (gc_pc = "ended" /\ gc_calls = 1) => (gc_db_at_call \ gc_db) \subseteq NamedBy(gc_args)


(***************************************************************************)
(* Claims about download_data_using_threadpool (checked under SpecDownload)*)
(***************************************************************************)
\* the call ended, by return or by exception
DownloadEnded == dl_pc \in {"returned", "raised"}

\* C28: every worker thread writes its file inside download_dir, no worker
\* opening its file after the working directory was switched back, also
\* when a download fails while others are pending or running; after the
\* call ended the working directory is what it was before the call.
C28_FilesInDownloadDir ==
    /\ \A u \in 1..dl_urls : dl_written[u] \in {"none", "download"}
    /\ DownloadEnded => dl_cwd = "cur"

\* the part of C28 about the working directory after the call
C28_DirectoryRestored == DownloadEnded => dl_cwd = "cur"

\* the part of C28 about the files, for a call that returned
C28_FilesInDownloadDirOnReturn ==
    dl_pc = "returned" =>
        \A u \in 1..dl_urls : dl_written[u] = "download"

=============================================================================
